---- MODULE Spec2Model ----
(***************************************************************************)
(* A model of porchlight's Neighborhood (the Coordinator), its Doors (the  *)
(* Contracts) and its Params (the Parameters).                             *)
(*                                                                         *)
(* The Neighborhood's state is its _doors dictionary (insertion ordered),  *)
(* its _call_order list and its _params dictionary.  A Param object can be *)
(* shared: add_door stores the Door's own keyword_args Param object in     *)
(* _params, so a namespace entry is either a cell of its own or the cell   *)
(* of a Door's default.                                                    *)
(*                                                                         *)
(* Param objects used on their own (their value setter and listeners) are  *)
(* modelled apart, as objects pobj with listener lists plist, and so are   *)
(* Door and DynamicDoor objects, as objects dobj.                          *)
(***************************************************************************)
EXTENDS Integers, Sequences, FiniteSets, TLC

VARIABLES
    doors,           \* Neighborhood._doors: sequence of entries, in dict order
    call_order,      \* Neighborhood._call_order
    params,          \* Neighborhood._params: name -> Param cell
    keyword_args,    \* every Door object's keyword_args: door -> name -> value
    initialization,  \* Neighborhood.initialization (fixed at construction)
    finalization,    \* Neighborhood.finalization (fixed at construction)
    has_initialized, \* Neighborhood.has_initialized
    last,            \* the last operation: what it was and how it ended
    nops,            \* number of operations performed so far
    pobj,            \* Param objects created by user code: object -> Param
    plist,           \* the list objects held as Param._listeners
    plast,           \* the last operation on a Param object
    dobj,            \* Door objects used on their own: object -> Door
    dgen,            \* per DynamicDoor object, what its updates generated
    dlast,           \* the last operation on a Door object
    source           \* the return statements of a callable being written

vars == <<doors, call_order, params, keyword_args, initialization,
          finalization, has_initialized, last, nops, pobj, plist, plast,
          dobj, dgen, dlast, source>>

\* The variables of the Param objects, and those of the Neighborhood.
pvars == <<pobj, plist, plast>>

nvars == <<doors, call_order, params, keyword_args, initialization,
           finalization, has_initialized, last>>

\* The variables of the Door objects used on their own.
dvars == <<dobj, dgen, dlast>>

\* The source text of a callable that user code writes.
svars == <<source>>

\* The variables of everything used outside a Neighborhood.
ovars == <<pvars, dvars, svars>>

----------------------------------------------------------------------------
(* Bounds of the model. *)

\* Operations performed in one behaviour.
MaxOps == 2

\* Length of the list handed to order_doors.
MaxOrderLen == 2

----------------------------------------------------------------------------
(* Values.  A value is a record [t, v, c]: t is its Python type, v its     *)
(* payload, c the variable captured by a Door that is a closure.           *)

Empty == [t |-> "Empty", v |-> 0, c |-> 0]

\* param.Empty, the class itself (not its instance).
EmptyClass == [t |-> "type", v |-> 0, c |-> 0]

\* What a callable that returns nothing returns.
NoneVal == [t |-> "None", v |-> 0, c |-> 0]

IntVal(n) == [t |-> "int", v |-> n, c |-> 0]

\* A str; v numbers the strings of the scenario.
StrVal(n) == [t |-> "str", v |-> n, c |-> 0]

\* A tuple of values.
TupleVal(items) == [t |-> "tuple", v |-> items, c |-> 0]

\* What iterating over a result yields (zip over the output of a callable).
Items(output) == IF output.t = "tuple" THEN output.v ELSE <<>>

\* A Door object as a value; cap encodes the captured variable of a closure:
\* 0 when it holds no int, n + 1 when it holds the int n.
DoorVal(d, cap) == [t |-> "Door", v |-> d, c |-> cap]

IsEmpty(val) == val.t = "Empty"

IsInt(val) == val.t = "int"

Capture(val) == IF IsInt(val) THEN val.v + 1 ELSE 0

----------------------------------------------------------------------------
(* The Door objects of the scenario: the callables user code wraps.        *)
(*   F     @Door def f(x, y=1) -> int:  z = x + y;  return z               *)
(*   F2    @Door def f(x, y=2) -> int:  z = x + y;  return z               *)
(*   G     @Door def g(z):              w = z * 2;  return w               *)
(*   H     @Door def h(w):              xy = w + 1; return xy              *)
(*   S     @Door def s():               z = 1; y = 3; return z, y          *)
(*   GEN   @Door def gen(x) -> Door:    (defines inner);  return inner     *)
(*   INNER @Door def inner():           y = x + 1;  return y   (closure)   *)
(*   INIT  def init():                  x = 1;      return x               *)
(*   T     @Door def t():               z = (1, 3); return z               *)
(*   Q     @Door def q():               return "Hello!"                    *)
(*   FT    def ft(x: int, y=1) -> int:  z = x + y;  return z               *)
(*   PO    def po(x, /, y=1):           z = x + y;  return z               *)

F == 1

F2 == 2

G == 3

H == 4

S == 5

GEN == 6

INNER == 7

INIT == 8

T == 9

Q == 10

FT == 11

PO == 12

DoorIds == {F, F2, G, H, S, GEN, INNER, INIT, T, Q}

\* The Doors user code registers with add_door.
Registerable == {F, F2, G, H, S, GEN}

Names == {"x", "y", "z", "w", "xy", "inner"}

\* BaseDoor.name: the wrapped function's __name__.
DoorName(d) ==
    CASE d = F -> "f"
      [] d = F2 -> "f"
      [] d = G -> "g"
      [] d = H -> "h"
      [] d = S -> "s"
      [] d = GEN -> "gen"
      [] d = INNER -> "inner"
      [] d = INIT -> "init"
      [] d = T -> "t"
      [] d = Q -> "q"
      [] d = FT -> "ft"
      [] d = PO -> "po"

\* BaseDoor.arguments, in signature order.
Arguments(d) ==
    CASE d \in {F, F2, FT, PO} -> <<"x", "y">>
      [] d = G -> <<"z">>
      [] d = H -> <<"w">>
      [] d = GEN -> <<"x">>
      [] OTHER -> <<>>

\* The default the signature declares for an argument; Empty when none.
DeclaredDefault(d, a) ==
    CASE d \in {F, FT, PO} /\ a = "y" -> IntVal(1)
      [] d = F2 /\ a = "y" -> IntVal(2)
      [] OTHER -> Empty

\* BaseDoor.return_vals.
ReturnVals(d) ==
    CASE d \in {F, F2, FT, PO} -> <<"z">>
      [] d = G -> <<"w">>
      [] d = H -> <<"xy">>
      [] d = S -> <<"z", "y">>
      [] d = GEN -> <<"inner">>
      [] d = INNER -> <<"y">>
      [] d = INIT -> <<"x">>
      [] d = T -> <<"z">>
      [] d = Q -> <<>>

\* BaseDoor.return_types: the decomposed return annotation, <<>> when the
\* callable has none.
ReturnTypes(d) ==
    CASE d \in {F, F2, FT} -> <<"int">>
      [] d = GEN -> <<"Door">>
      [] OTHER -> <<>>

\* BaseDoor.positional_only: the arguments declared before "/".
PositionalOnly(d) == IF d = PO THEN <<"x">> ELSE <<>>

\* The annotation of an argument as BaseDoor.arguments holds it: the type,
\* or an Empty instance when the signature declares none.
Annotation(d, a) == IF d = FT /\ a = "x" THEN "int" ELSE "Empty"

\* The characters of a name: what iterating over the string yields.
NameChars(n) == IF n = "xy" THEN {"x", "y"} ELSE {n}

Range(s) == {s[i] : i \in 1..Len(s)}

\* The wrapped callable: its result on keyword arguments in (name -> value);
\* an argument that is not supplied takes the signature's default, and a
\* missing argument, a positional-only argument given by keyword or
\* arithmetic on a non-number raises TypeError.
BaseFunction(d, cap, in) ==
    LET arg(a) == IF a \in DOMAIN in THEN in[a] ELSE DeclaredDefault(d, a)
        bad == \E i \in 1..Len(Arguments(d)) :
                   /\ d # GEN
                   /\ ~IsInt(arg(Arguments(d)[i]))
        missing == \E i \in 1..Len(Arguments(d)) :
                   /\ Arguments(d)[i] \notin DOMAIN in
                   /\ IsEmpty(DeclaredDefault(d, Arguments(d)[i]))
        positional == \E a \in DOMAIN in : a \in Range(PositionalOnly(d))
    IN  IF missing \/ bad \/ positional \/ (d = INNER /\ cap = 0)
        THEN [err |-> "TypeError", out |-> NoneVal]
        ELSE [err |-> "none",
              out |-> CASE d \in {F, F2, FT, PO} ->
                               IntVal(arg("x").v + arg("y").v)
                        [] d = G -> IntVal(arg("z").v * 2)
                        [] d = H -> IntVal(arg("w").v + 1)
                        [] d = S -> TupleVal(<<IntVal(1), IntVal(3)>>)
                        [] d = GEN -> DoorVal(INNER, Capture(arg("x")))
                        [] d = INNER -> IntVal(cap)
                        [] d = INIT -> IntVal(1)
                        [] d = T -> TupleVal(<<IntVal(1), IntVal(3)>>)
                        [] d = Q -> StrVal(1)]

----------------------------------------------------------------------------
(* Door objects held by the Neighborhood.  An entry of _doors is its key   *)
(* and the Door: a static Door of the scenario (id), or a DynamicDoor      *)
(* (dyn) with its _cur_door (id, cap), its _last_door (last, lastcap) and  *)
(* the generator_kwargs' param_name (gen).  id = 0: nothing generated yet. *)

StaticEntry(d) ==
    [key |-> DoorName(d), dyn |-> FALSE, id |-> d, cap |-> 0,
     last |-> 0, lastcap |-> 0, gen |-> ""]

\* The DynamicDoor add_door synthesizes for an output name.
TemplateEntry(ret_val) ==
    [key |-> ret_val, dyn |-> TRUE, id |-> 0, cap |-> 0,
     last |-> 0, lastcap |-> 0, gen |-> ret_val]

\* Door.name: a DynamicDoor takes the generated Door's name on update.
EntryName(e) == IF e.dyn /\ e.id = 0 THEN e.key ELSE DoorName(e.id)

EntryArguments(e) == IF e.id = 0 THEN <<>> ELSE Arguments(e.id)

EntryReturnVals(e) == IF e.id = 0 THEN <<>> ELSE ReturnVals(e.id)

Keys(ds) == {ds[i].key : i \in 1..Len(ds)}

HasKey(ds, k) == k \in Keys(ds)

IndexOf(ds, k) == CHOOSE i \in 1..Len(ds) : ds[i].key = k

Lookup(ds, k) == ds[IndexOf(ds, k)]

\* self._doors[key] = entry: a known key keeps its place in the dict.
PutDoor(ds, e) ==
    IF HasKey(ds, e.key)
    THEN [ds EXCEPT ![IndexOf(ds, e.key)] = e]
    ELSE Append(ds, e)

\* del self._doors[key]
DelDoor(ds, k) == SelectSeq(ds, LAMBDA e : e.key # k)

\* Door.required_arguments: the arguments whose keyword_args Param holds
\* Empty, in argument order.
RequiredArguments(e, kw) ==
    SelectSeq(EntryArguments(e), LAMBDA a : IsEmpty(kw[e.id][a]))

\* Door.variables: arguments, then return values, each once.
Variables(e) ==
    EntryArguments(e) \o
    SelectSeq(EntryReturnVals(e), LAMBDA r : r \notin Range(EntryArguments(e)))

----------------------------------------------------------------------------
(* Params.  A namespace entry is [cell, value, constant, type, restrict]:  *)
(* cell = 0 is a Param object of the namespace's own; cell = d is the      *)
(* Param object keyword_args[name] of Door d, whose value (and with it the *)
(* type recorded for it) lives in keyword_args.                            *)

\* The validators of the scenario: None, and lambda v: v < 3.
Restricts == {"none", "small"}

\* restrict(new_value)
Accepts(restrict, val) == restrict = "none" \/ (IsInt(val) /\ val.v < 3)

\* Param(name, value, constant, restrict)
RestrictedParam(val, constant, restrict) ==
    [cell |-> 0, value |-> val, constant |-> constant, type |-> val.t,
     restrict |-> restrict]

\* Param(name, value, constant)
OwnParam(val, constant) == RestrictedParam(val, constant, "none")

\* The Door's own default Param object, stored as is.
DoorParam(d) ==
    [cell |-> d, value |-> Empty, constant |-> FALSE, type |-> "Empty",
     restrict |-> "none"]

\* Param.type
TypeOf(ps, kw, n) ==
    IF ps[n].cell = 0 THEN ps[n].type ELSE kw[ps[n].cell][n].t

\* Param.value (getter).
ValueOf(ps, kw, n) ==
    IF ps[n].cell = 0 THEN ps[n].value ELSE kw[ps[n].cell][n]

\* self._params[name] = entry
PutParam(ps, n, entry) ==
    [m \in DOMAIN ps \cup {n} |-> IF m = n THEN entry ELSE ps[m]]

\* Neighborhood.empty_parameters
EmptyParameters(ps, kw) == {n \in DOMAIN ps : IsEmpty(ValueOf(ps, kw, n))}

\* The state an operation works on and its outcome: err is the exception
\* raised ("none": it returned), invoked the keys of the Doors whose callable
\* was called, returned how many of these calls returned, outputs what they
\* returned, writes the values stored, failed the Param whose write raised
\* ParameterError ("" when none did), ret what the operation returned.
Start(ds, ps, kw) ==
    [doors |-> ds, params |-> ps, kw |-> kw, err |-> "none",
     invoked |-> <<>>, returned |-> 0, writes |-> <<>>, failed |-> "",
     outputs |-> <<>>, ret |-> NoneVal]

Raise(st, e) == [st EXCEPT !.err = e]

\* Param.value (setter) on self._params[n].
SetValue(st, n, val) ==
    IF st.params[n].constant
    THEN [Raise(st, "ParameterError") EXCEPT !.failed = n]
    ELSE IF ~Accepts(st.params[n].restrict, val)
    THEN [Raise(st, "ParameterError") EXCEPT !.failed = n]
    ELSE IF st.params[n].cell = 0
         THEN [st EXCEPT !.params[n].value = val,
                         !.params[n].type = val.t,
                         !.writes = Append(@, [name |-> n, value |-> val])]
         ELSE [st EXCEPT !.kw[st.params[n].cell][n] = val,
                         !.writes = Append(@, [name |-> n, value |-> val])]

----------------------------------------------------------------------------
(* DynamicDoor.update and the distribution of a Door's result.             *)

\* DynamicDoor.update on entry e: [e, err].  The generator of a synthesized
\* DynamicDoor returns the current value of the Param named e.gen.
Update(e, ps, kw) ==
    LET e1 == [e EXCEPT !.last = e.id, !.lastcap = e.cap]
    IN  IF e.gen \notin DOMAIN ps THEN [e |-> e1, err |-> "KeyError"]
        ELSE LET updated_door == ValueOf(ps, kw, e.gen)
             IN  IF updated_door.t # "Door"
                 THEN [e |-> e1, err |-> "TypeError"]
                 ELSE [e |-> [e1 EXCEPT !.id = updated_door.v,
                                        !.cap = updated_door.c],
                       err |-> "none"]

\* The Param add_param stores for a name a regenerated DynamicDoor brings:
\* the Door's keyword_args Param when it has one, else param.Empty (the class).
DynamicParam(e, p) ==
    IF p \in Range(EntryArguments(e)) THEN DoorParam(e.id)
    ELSE OwnParam(EmptyClass, FALSE)

\* A regeneration that brings no Param into the namespace.
AddDynamicParamsNone(ps, e, names, i) == ps

RECURSIVE AddDynamicParams(_, _, _, _)
AddDynamicParams(ps, e, names, i) ==
    IF i > Len(names) THEN ps
    ELSE AddDynamicParams(
             IF names[i] \in DOMAIN ps THEN ps
             ELSE PutParam(ps, names[i], DynamicParam(e, names[i])),
             e, names, i + 1)

\* {pname: self._params[pname].value for pname in arguments}
InputParams(st, args) ==
    [a \in Range(args) |-> ValueOf(st.params, st.kw, a)]

\* zip(names, values) as a sequence of [name, value].
Zip(names, values) ==
    [i \in 1..(IF Len(names) < Len(values) THEN Len(names) ELSE Len(values))
        |-> [name |-> names[i], value |-> values[i]]]

\* A distribution that zips the names with the output whatever their number.
UpdateParamsZipped(return_vals, output) == Zip(return_vals, Items(output))

\* update_params of call_all_doors: no name takes nothing, one name takes
\* the whole output, several are zipped with it.
UpdateParams(return_vals, output) ==
    IF Len(return_vals) = 0 THEN <<>>
    ELSE IF Len(return_vals) > 1 THEN Zip(return_vals, Items(output))
    ELSE <<[name |-> return_vals[1], value |-> output]>>

\* update_params of call: fewer than two names wrap the output in a tuple
\* before the zip.
CallParams(return_vals, output) ==
    Zip(return_vals, IF Len(return_vals) < 2 THEN <<output>> ELSE Items(output))

\* initialize: at most one name wraps the result in a list before the zip.
InitParams(return_values, result) ==
    Zip(return_values,
        IF Len(return_values) <= 1 THEN <<result>> ELSE Items(result))

\* A write of an output that looks at no constant flag.
WriteOutputUnchecked(st, pname, new_value) ==
    IF pname \notin DOMAIN st.params THEN Raise(st, "KeyError")
    ELSE [st EXCEPT !.params[pname] =
                        OwnParam(new_value, st.params[pname].constant),
                    !.writes = Append(@, [name |-> pname, value |-> new_value])]

\* call_all_doors, one output: an Empty Param is replaced by a fresh one, a
\* constant one raises, and then the value is written.
WriteOutput(st, pname, new_value) ==
    IF pname \notin DOMAIN st.params THEN Raise(st, "KeyError")
    ELSE LET st1 == IF IsEmpty(ValueOf(st.params, st.kw, pname))
                    THEN [st EXCEPT !.params[pname] = OwnParam(new_value, FALSE)]
                    ELSE st
         IN  IF st1.params[pname].constant
             THEN [Raise(st1, "ParameterError") EXCEPT !.failed = pname]
             ELSE SetValue(st1, pname, new_value)

RECURSIVE WriteOutputs(_, _, _)
WriteOutputs(st, ups, i) ==
    IF i > Len(ups) \/ st.err # "none" THEN st
    ELSE WriteOutputs(WriteOutput(st, ups[i].name, ups[i].value), ups, i + 1)

\* self._doors[k] = e, inside an operation.
WithDoor(st, e) == [st EXCEPT !.doors = PutDoor(@, e)]

\* call_all_doors, one name of the call order.
CallOneDoor(st, doorname) ==
    IF ~HasKey(st.doors, doorname) THEN Raise(st, "KeyError")
    ELSE
    LET e0 == Lookup(st.doors, doorname)
        u1 == IF e0.dyn THEN Update(e0, st.params, st.kw)
              ELSE [e |-> e0, err |-> "none"]
        \* the Params the regenerated Door brings
        ps1 == IF e0.dyn /\ u1.err = "none"
               THEN AddDynamicParams(st.params, u1.e, Variables(u1.e), 1)
               ELSE st.params
        st1 == [WithDoor(st, u1.e) EXCEPT !.params = ps1]
        \* DynamicDoor.__call__ updates once more before it delegates
        u2 == IF e0.dyn THEN Update(u1.e, ps1, st.kw)
              ELSE [e |-> e0, err |-> "none"]
        cur_door == u2.e
        st2 == WithDoor(st1, cur_door)
        res == BaseFunction(cur_door.id, cur_door.cap,
                            InputParams(st1, EntryArguments(u1.e)))
    IN  IF u1.err # "none" THEN Raise(st1, u1.err)
        ELSE IF \E i \in 1..Len(EntryArguments(u1.e)) :
                    EntryArguments(u1.e)[i] \notin DOMAIN ps1
        THEN Raise(st1, "KeyError")
        ELSE IF u2.err # "none" THEN Raise(st2, u2.err)
        ELSE LET st3 == [st2 EXCEPT !.invoked = Append(@, doorname)]
             IN  IF res.err # "none" THEN Raise(st3, res.err)
                 ELSE WriteOutputs(
                          [st3 EXCEPT !.returned = @ + 1,
                                      !.outputs = Append(@, res.out)],
                          UpdateParams(EntryReturnVals(cur_door), res.out), 1)

\* Neighborhood.call_all_doors
RECURSIVE CallAllDoors(_, _, _)
CallAllDoors(st, order, i) ==
    IF i > Len(order) \/ st.err # "none" THEN st
    ELSE CallAllDoors(CallOneDoor(st, order[i]), order, i + 1)

----------------------------------------------------------------------------
(* Required parameters, initialization and run_step.                       *)

\* The characters of every return value of a Door: what the loops
\* "for ra in d.return_vals: for p in ra" add to returned_args.
ReturnedChars(e) ==
    UNION {NameChars(EntryReturnVals(e)[i]) : i \in 1..Len(EntryReturnVals(e))}

\* required_parameters, the arguments of one Door: acc is
\* [req_args, returned_args].
RECURSIVE RequiredOfDoor(_, _, _, _)
RequiredOfDoor(acc, e, req, j) ==
    IF j > Len(req) THEN acc
    ELSE RequiredOfDoor(
             [req_args |-> IF req[j] \in acc.returned_args THEN acc.req_args
                           ELSE acc.req_args \cup {req[j]},
              returned_args |-> acc.returned_args \cup ReturnedChars(e)],
             e, req, j + 1)

RECURSIVE RequiredFold(_, _, _, _)
RequiredFold(acc, ds, kw, i) ==
    IF i > Len(ds) THEN acc
    ELSE RequiredFold(
             RequiredOfDoor(acc, ds[i], RequiredArguments(ds[i], kw), 1),
             ds, kw, i + 1)

\* Neighborhood.required_parameters
RequiredParameters(ds, kw) ==
    RequiredFold([req_args |-> {}, returned_args |-> {}], ds, kw, 1).req_args

\* Neighborhood.set_param inside an operation.
SetParam(st, n, val, constant, ignore_constant) ==
    IF n \notin DOMAIN st.params THEN Raise(st, "KeyError")
    ELSE IF ~ignore_constant /\ st.params[n].constant
    THEN [Raise(st, "ParameterError") EXCEPT !.failed = n]
    ELSE [st EXCEPT !.params = PutParam(@, n, OwnParam(val, constant)),
                    !.writes = Append(@, [name |-> n, value |-> val])]

\* Neighborhood.add_param inside an operation.
AddParam(st, n, val, constant, restrict) ==
    [st EXCEPT !.params = PutParam(@, n, RestrictedParam(val, constant, restrict)),
               !.writes = Append(@, [name |-> n, value |-> val])]

\* initialize, the outputs of one callable: a known name is set, a new one
\* is added.
RECURSIVE InitOutputs(_, _, _)
InitOutputs(st, ups, i) ==
    IF i > Len(ups) \/ st.err # "none" THEN st
    ELSE InitOutputs(
             IF ups[i].name \in DOMAIN st.params
             THEN SetParam(st, ups[i].name, ups[i].value, FALSE, FALSE)
             ELSE AddParam(st, ups[i].name, ups[i].value, FALSE, "none"),
             ups, i + 1)

\* gather_door_arguments: the Door's non-Empty defaults, overridden by the
\* namespace; None when an argument is in neither.
Gathered(st, d, defaults) ==
    [a \in {b \in Range(Arguments(d)) :
               b \in DOMAIN st.params \/ (defaults /\ ~IsEmpty(st.kw[d][b]))}
        |-> IF a \in DOMAIN st.params THEN ValueOf(st.params, st.kw, a)
            ELSE st.kw[d][a]]

CanGather(st, d, defaults) ==
    DOMAIN Gathered(st, d, defaults) = Range(Arguments(d))

\* initialize, one callable of the initialization list.
InitOne(st, d) ==
    IF ~CanGather(st, d, TRUE) THEN Raise(st, "KeyError")
    ELSE LET res == BaseFunction(d, 0, Gathered(st, d, TRUE))
         IN  IF res.err # "none" THEN Raise(st, res.err)
             ELSE InitOutputs(st, InitParams(ReturnVals(d), res.out), 1)

RECURSIVE InitAll(_, _, _)
InitAll(st, fxns, i) ==
    IF i > Len(fxns) \/ st.err # "none" THEN st
    ELSE InitAll(InitOne(st, fxns[i]), fxns, i + 1)

\* Neighborhood.initialize
Initialize(st, fxns, done) ==
    IF done \/ fxns = <<>> THEN st ELSE InitAll(st, fxns, 1)

\* The outputs of a finalization callable written as initialize writes
\* them: a new name is added as an ordinary Param.
FinalOutputsAsInit(st, ups, i) == InitOutputs(st, ups, i)

\* finalize, the outputs of one callable: a known name is set with
\* set_param, a new one is added as a constant Param.
RECURSIVE FinalOutputs(_, _, _)
FinalOutputs(st, ups, i) ==
    IF i > Len(ups) \/ st.err # "none" THEN st
    ELSE FinalOutputs(
             IF ups[i].name \in DOMAIN st.params
             THEN SetParam(st, ups[i].name, ups[i].value, FALSE, FALSE)
             ELSE AddParam(st, ups[i].name, ups[i].value, TRUE, "none"),
             ups, i + 1)

\* finalize, one callable of the finalization list: its arguments are
\* gathered from the namespace alone.
FinalOne(st, d) ==
    IF ~CanGather(st, d, FALSE) THEN Raise(st, "KeyError")
    ELSE LET res == BaseFunction(d, 0, Gathered(st, d, FALSE))
             st1 == [st EXCEPT !.invoked = Append(@, DoorName(d))]
         IN  IF res.err # "none" THEN Raise(st1, res.err)
             ELSE FinalOutputs(
                      [st1 EXCEPT !.returned = @ + 1,
                                  !.outputs = Append(@, res.out)],
                      InitParams(ReturnVals(d), res.out), 1)

RECURSIVE FinalAll(_, _, _)
FinalAll(st, fxns, i) ==
    IF i > Len(fxns) \/ st.err # "none" THEN st
    ELSE FinalAll(FinalOne(st, fxns[i]), fxns, i + 1)

\* Neighborhood.finalize
Finalize(st, fxns) == FinalAll(st, fxns, 1)

\* The names run_step reports missing.
Missing(st) ==
    EmptyParameters(st.params, st.kw) \cap RequiredParameters(st.doors, st.kw)

\* A run_step that restores the Params it was given when it fails.
RunStepAtomic(st, order, fxns, done) ==
    LET st1 == Initialize(st, fxns, done)
        r == IF st1.err # "none" THEN st1
             ELSE IF Missing(st1) # {} THEN Raise(st1, "ParameterError")
             ELSE CallAllDoors(st1, order, 1)
    IN  IF r.err # "none" THEN [r EXCEPT !.params = st.params, !.kw = st.kw]
        ELSE r

\* A run_step that validates the required parameters before it initializes.
RunStepValidateFirst(st, order, fxns, done) ==
    IF Missing(st) # {} THEN Raise(st, "ParameterError")
    ELSE LET st1 == Initialize(st, fxns, done)
         IN  IF st1.err # "none" THEN st1
             ELSE CallAllDoors(st1, order, 1)

\* Neighborhood.run_step
RunStep(st, order, fxns, done) ==
    LET st1 == Initialize(st, fxns, done)
    IN  IF st1.err # "none" THEN st1
        ELSE IF Missing(st1) # {} THEN Raise(st1, "ParameterError")
        ELSE CallAllDoors(st1, order, 1)

----------------------------------------------------------------------------
(* Registration.                                                           *)

\* add_door, the arguments of the new Door: a name that is new (or any name,
\* with overwrite_defaults) gets the Door's own keyword_args Param.
RECURSIVE AddArguments(_, _, _, _)
AddArguments(ps, d, overwrite_defaults, i) ==
    IF i > Len(Arguments(d)) THEN ps
    ELSE AddArguments(
             IF Arguments(d)[i] \notin DOMAIN ps \/ overwrite_defaults
             THEN PutParam(ps, Arguments(d)[i], DoorParam(d))
             ELSE ps,
             d, overwrite_defaults, i + 1)

\* Return values that get an Empty Param whether the name is new or not.
AddReturnValsReset(ps, return_vals, i) ==
    [n \in DOMAIN ps \cup Range(return_vals) |->
        IF n \in Range(return_vals) THEN OwnParam(Empty, FALSE) ELSE ps[n]]

\* add_door, the return values of a Door that is not a generator: a new
\* name gets an Empty Param.
RECURSIVE AddReturnVals(_, _, _)
AddReturnVals(ps, return_vals, i) ==
    IF i > Len(return_vals) THEN ps
    ELSE AddReturnVals(
             IF return_vals[i] \in DOMAIN ps THEN ps
             ELSE PutParam(ps, return_vals[i], OwnParam(Empty, FALSE)),
             return_vals, i + 1)

\* add_door with dynamic_door, the return types: each output annotated as a
\* Door and not yet a key of _doors gets a synthesized DynamicDoor, appended
\* to the call order, and an Empty Param.  r is [doors, call_order, params].
RECURSIVE AddTemplates(_, _, _)
AddTemplates(r, d, i) ==
    IF i > Len(ReturnTypes(d)) THEN r
    ELSE LET ret_val == ReturnVals(d)[i]
         IN  AddTemplates(
                 IF ReturnTypes(d)[i] = "Door" /\ ~HasKey(r.doors, ret_val)
                 THEN [doors |-> PutDoor(r.doors, TemplateEntry(ret_val)),
                       call_order |-> Append(r.call_order, ret_val),
                       params |-> PutParam(r.params, ret_val,
                                           OwnParam(Empty, FALSE))]
                 ELSE r,
                 d, i + 1)

\* Neighborhood.add_door(new_door, overwrite_defaults, dynamic_door):
\* [doors, call_order, params, err].
AddDoorResult(ds, order, ps, d, overwrite_defaults, dynamic_door) ==
    LET ds1 == PutDoor(ds, StaticEntry(d))
        order1 == Append(order, DoorName(d))
        ps1 == AddArguments(ps, d, overwrite_defaults, 1)
        base == [doors |-> ds1, call_order |-> order1, params |-> ps1]
    IN  IF ~dynamic_door
        THEN [doors |-> ds1, call_order |-> order1,
              params |-> AddReturnVals(ps1, ReturnVals(d), 1), err |-> "none"]
        ELSE IF ReturnTypes(d) = <<>>
        THEN [doors |-> ds1, call_order |-> order1, params |-> ps1,
              err |-> "NeighborhoodError"]
        ELSE LET r == AddTemplates(base, d, 1)
             IN  [doors |-> r.doors, call_order |-> r.call_order,
                  params |-> r.params, err |-> "none"]

\* A remove_door that drops the Door added last, whatever the name.
RemoveLastDoor(ds, name) ==
    IF ds = <<>> THEN [doors |-> ds, err |-> "KeyError"]
    ELSE [doors |-> SubSeq(ds, 1, Len(ds) - 1), err |-> "none"]

\* Neighborhood.remove_door: [doors, err].
RemoveDoorResult(ds, name) ==
    IF ~HasKey(ds, name) THEN [doors |-> ds, err |-> "KeyError"]
    ELSE [doors |-> DelDoor(ds, name), err |-> "none"]

\* Neighborhood.order_doors: [call_order, err].
OrderDoorsResult(ds, old, order) ==
    IF order = <<>> THEN [call_order |-> old, err |-> "ValueError"]
    ELSE IF Len(order) > Len(ds) THEN [call_order |-> old, err |-> "ValueError"]
    ELSE IF \E i \in 1..Len(order) : ~HasKey(ds, order[i])
    THEN [call_order |-> old, err |-> "KeyError"]
    ELSE [call_order |-> order, err |-> "none"]

\* call, the outputs: an Empty Param is replaced by a fresh one, any other
\* is written through Param.value.
RECURSIVE CallOutputs(_, _, _)
CallOutputs(st, ups, i) ==
    IF i > Len(ups) \/ st.err # "none" THEN st
    ELSE CallOutputs(
             IF ups[i].name \notin DOMAIN st.params THEN Raise(st, "KeyError")
             ELSE IF IsEmpty(ValueOf(st.params, st.kw, ups[i].name))
             THEN [st EXCEPT !.params[ups[i].name] =
                                 OwnParam(ups[i].value, FALSE),
                             !.writes = Append(@, ups[i])]
             ELSE SetValue(st, ups[i].name, ups[i].value),
             ups, i + 1)

\* What call returns once the outputs are stored: nothing when no output
\* was paired with a name, else the output as packed for the zip.
CallReturn(st, return_vals, output) ==
    IF st.err # "none" THEN st
    ELSE IF CallParams(return_vals, output) = <<>> THEN st
    ELSE [st EXCEPT !.ret = IF Len(return_vals) < 2 THEN TupleVal(<<output>>)
                            ELSE output]

\* Neighborhood.call(door_name), door_name a string.
Call(st, door_name) ==
    IF ~HasKey(st.doors, door_name) THEN Raise(st, "NeighborhoodError")
    ELSE
    LET e0 == Lookup(st.doors, door_name)
        args == EntryArguments(e0)
        u == IF e0.dyn THEN Update(e0, st.params, st.kw)
             ELSE [e |-> e0, err |-> "none"]
        cur_door == u.e
        st1 == WithDoor(st, cur_door)
        \* BaseDoor.__call__ keeps the keyword arguments the Door declares
        given == InputParams(st, args)
        input_kwargs == [a \in DOMAIN given \cap Range(EntryArguments(cur_door))
                            |-> given[a]]
        res == BaseFunction(cur_door.id, cur_door.cap, input_kwargs)
    IN  IF \E i \in 1..Len(args) : args[i] \notin DOMAIN st.params
        THEN Raise(st, "KeyError")
        ELSE IF u.err # "none" THEN Raise(st1, u.err)
        ELSE LET st2 == [st1 EXCEPT !.invoked = Append(@, door_name)]
             IN  IF res.err # "none" THEN Raise(st2, res.err)
                 ELSE CallReturn(
                          CallOutputs(
                              [st2 EXCEPT !.returned = @ + 1,
                                          !.outputs = Append(@, res.out)],
                              CallParams(EntryReturnVals(cur_door), res.out),
                              1),
                          EntryReturnVals(cur_door), res.out)

----------------------------------------------------------------------------
(* The Neighborhood as a state machine.                                    *)

\* The lists of Doors handed to the constructor as initial_doors.
InitialDoors ==
    {<<>>, <<F>>, <<F, G>>, <<G, F>>, <<H, F>>, <<F, S>>, <<F, F2>>}

\* The initialization lists handed to the constructor.
Initializations == {<<>>, <<INIT>>}

\* What user code stores with set_param: (value, constant, ignore_constant).
SetInputs ==
    {<<IntVal(2), FALSE, FALSE>>, <<IntVal(2), TRUE, FALSE>>,
     <<IntVal(2), FALSE, TRUE>>}

\* What user code adds with add_param.
AddNames == {"x", "y", "k"}

AddValue == IntVal(5)

\* A name that no Door is registered under.
Unknown == "t"

\* Every Door's keyword_args as constructed: one Param per argument, holding
\* the declared default or Empty.
InitialKeywordArgs ==
    [d \in DoorIds |-> [a \in Range(Arguments(d)) |-> DeclaredDefault(d, a)]]

NoParams == [n \in {} |-> OwnParam(Empty, FALSE)]

\* __init__: add_door for each of initial_doors.
RECURSIVE Construct(_, _, _)
Construct(r, initial_doors, i) ==
    IF i > Len(initial_doors) THEN r
    ELSE Construct(
             AddDoorResult(r.doors, r.call_order, r.params, initial_doors[i],
                           FALSE, FALSE),
             initial_doors, i + 1)

\* The record of an operation: op and its inputs (arg: a Door key or Param
\* name, d: a Door, flag: overwrite_defaults or constant, force:
\* ignore_constant or dynamic_door, order), then its outcome; ninit counts the writes made
\* by the initialization phase.
Outcome(op, arg, d, flag, force, order, st, ninit) ==
    [op |-> op, arg |-> arg, d |-> d, flag |-> flag, force |-> force,
     order |-> order,
     err |-> st.err, invoked |-> st.invoked, returned |-> st.returned,
     writes |-> st.writes, failed |-> st.failed, ninit |-> ninit,
     outputs |-> st.outputs, ret |-> st.ret]

Plain(op, arg, d, flag, order, err) ==
    [op |-> op, arg |-> arg, d |-> d, flag |-> flag, force |-> FALSE,
     order |-> order,
     err |-> err, invoked |-> <<>>, returned |-> 0, writes |-> <<>>,
     failed |-> "", ninit |-> 0, outputs |-> <<>>, ret |-> NoneVal]

\* The Param objects before user code creates any.  List 0 is the list
\* object the signature of Param.__init__ holds as default of listeners.
Objects == {1, 2}

\* The record of an operation on a Param object o: the value handed to
\* the setter, the exception raised and the listener calls made.
PlainParamOp(op, o, err) ==
    [op |-> op, o |-> o, value |-> NoneVal, err |-> err, notified |-> <<>>]

NoParamObjects ==
    /\ pobj = [o \in {} |-> 0]
    /\ plist = [k \in {0} \cup Objects |-> <<>>]
    /\ plast = PlainParamOp("none", 0, "none")

\* No Door object exists outside the Neighborhood yet.
NoDoorObjects ==
    /\ dobj = [o \in {} |-> 0]
    /\ dgen = [o \in {} |-> <<>>]
    /\ dlast = [op |-> "none", o |-> 0, err |-> "none"]
    /\ source = <<>>

ConstructedWith(initial_doors, fxns, final) ==
    LET r == Construct([doors |-> <<>>, call_order |-> <<>>,
                        params |-> NoParams, err |-> "none"],
                       initial_doors, 1)
    IN  /\ doors = r.doors
        /\ call_order = r.call_order
        /\ params = r.params
        /\ keyword_args = InitialKeywordArgs
        /\ initialization = fxns
        /\ finalization = final
        /\ has_initialized = FALSE
        /\ last = Plain("__init__", "", 0, FALSE, <<>>, "none")
        /\ nops = 0
        /\ NoParamObjects
        /\ NoDoorObjects

\* Neighborhood(initial_doors, initialization): no finalization to run.
Constructed(initial_doors, fxns) ==
    ConstructedWith(initial_doors, fxns, <<>>)

Init ==
    \E initial_doors \in InitialDoors, fxns \in Initializations :
        Constructed(initial_doors, fxns)

Here == Start(doors, params, keyword_args)

\* Sequences over A of length at most n.
SeqUpTo(A, n) == UNION {[1..k -> A] : k \in 0..n}

add_door(d, overwrite_defaults, dynamic_door) ==
    LET r == AddDoorResult(doors, call_order, params, d,
                           overwrite_defaults, dynamic_door)
    IN  /\ nops' = nops + 1
        /\ doors' = r.doors
        /\ call_order' = r.call_order
        /\ params' = r.params
        /\ last' = [Plain("add_door", DoorName(d), d, overwrite_defaults,
                          <<>>, r.err) EXCEPT !.force = dynamic_door]
        /\ UNCHANGED <<keyword_args, initialization, finalization,
                       has_initialized>>
        /\ UNCHANGED ovars

remove_door(name) ==
    LET r == RemoveDoorResult(doors, name)
    IN  /\ nops' = nops + 1
        /\ doors' = r.doors
        /\ last' = Plain("remove_door", name, 0, FALSE, <<>>, r.err)
        /\ UNCHANGED <<call_order, params, keyword_args, initialization,
                       finalization, has_initialized>>
        /\ UNCHANGED ovars

order_doors(order) ==
    LET r == OrderDoorsResult(doors, call_order, order)
    IN  /\ nops' = nops + 1
        /\ call_order' = r.call_order
        /\ last' = Plain("order_doors", "", 0, FALSE, order, r.err)
        /\ UNCHANGED <<doors, params, keyword_args, initialization,
                       finalization, has_initialized>>
        /\ UNCHANGED ovars

Commit(op, arg, flag, force, st, ninit) ==
    /\ nops' = nops + 1
    /\ doors' = st.doors
    /\ params' = st.params
    /\ keyword_args' = st.kw
    /\ last' = Outcome(op, arg, 0, flag, force, <<>>, st, ninit)
    /\ UNCHANGED <<call_order, initialization, finalization, has_initialized>>
    /\ UNCHANGED ovars

set_param(parameter_name, new_value, constant, ignore_constant) ==
    Commit("set_param", parameter_name, constant, ignore_constant,
           SetParam(Here, parameter_name, new_value, constant,
                    ignore_constant), 0)

add_param(parameter_name, value, constant, restrict) ==
    Commit("add_param", parameter_name, constant, FALSE,
           AddParam(Here, parameter_name, value, constant, restrict), 0)

\* The writes the initialization phase of a run_step makes.
InitWrites == Len(Initialize(Here, initialization, has_initialized).writes)

run_step ==
    Commit("run_step", "", FALSE, FALSE,
           RunStep(Here, call_order, initialization, has_initialized),
           InitWrites)

call(door_name) ==
    Commit("call", door_name, FALSE, FALSE, Call(Here, door_name), 0)

initialize ==
    Commit("initialize", "", FALSE, FALSE,
           Initialize(Here, initialization, has_initialized), InitWrites)

finalize ==
    Commit("finalize", "", FALSE, FALSE, Finalize(Here, finalization), 0)

\* Registration, removal and ordering of Doors.
AddDoor ==
    \E d \in Registerable, o \in BOOLEAN :
        nops < MaxOps /\ add_door(d, o, FALSE)

AddDynamicDoor ==
    \E d \in {GEN, G, F} : nops < MaxOps /\ add_door(d, FALSE, TRUE)

RemoveDoor ==
    \E name \in Keys(doors) \cup {Unknown} :
        nops < MaxOps /\ remove_door(name)

OrderDoors ==
    \E order \in SeqUpTo(Keys(doors) \cup {Unknown}, MaxOrderLen) :
        nops < MaxOps /\ order_doors(order)

\* The namespace, written by user code.
SetParamValue ==
    \E n \in DOMAIN params \cup {"k"}, i \in SetInputs :
        nops < MaxOps /\ set_param(n, i[1], i[2], i[3])

SetParamDoor ==
    nops < MaxOps /\ set_param("inner", DoorVal(G, 0), FALSE, FALSE)

AddParamValue ==
    \E n \in AddNames, c \in BOOLEAN :
        nops < MaxOps /\ add_param(n, AddValue, c, "none")

\* Execution.
RunOneStep == nops < MaxOps /\ run_step

CallDoor ==
    \E k \in Keys(doors) \cup {Unknown} : nops < MaxOps /\ call(k)

RunInitialize == nops < MaxOps /\ initialize

Next ==
    \/ AddDoor
    \/ AddDynamicDoor
    \/ RemoveDoor
    \/ OrderDoors
    \/ SetParamValue
    \/ SetParamDoor
    \/ AddParamValue
    \/ RunOneStep
    \/ CallDoor
    \/ RunInitialize

Spec == Init /\ [][Next]_vars

----------------------------------------------------------------------------
(* The Neighborhood with a generator of Doors: gen registered with         *)
(* dynamic_door, its Param x and the Param of the generated Door.          *)

\* Operations performed in one behaviour of SpecDynamic.
MaxDynOps == 4

DynInit == Constructed(<<>>, <<>>)

DynAddDoor == nops < MaxDynOps /\ add_door(GEN, FALSE, TRUE)

DynAddStatic == nops < MaxDynOps /\ add_door(F, FALSE, FALSE)

DynAddPlain == nops < MaxDynOps /\ add_door(GEN, FALSE, FALSE)

DynSetParam ==
    \E n \in {"x", "inner"}, val \in {IntVal(2), DoorVal(G, 0)} :
        nops < MaxDynOps /\ set_param(n, val, FALSE, FALSE)

DynRunStep == nops < MaxDynOps /\ run_step

DynCall == \E k \in Keys(doors) : nops < MaxDynOps /\ call(k)

DynRemoveDoor == \E k \in Keys(doors) : nops < MaxDynOps /\ remove_door(k)

DynNext ==
    \/ DynAddDoor
    \/ DynAddStatic
    \/ DynAddPlain
    \/ DynSetParam
    \/ DynRunStep
    \/ DynCall
    \/ DynRemoveDoor

SpecDynamic == DynInit /\ [][DynNext]_vars

----------------------------------------------------------------------------
(* The Neighborhood with Doors of zero, one and several outputs, and with  *)
(* validated Params.                                                       *)

\* Operations performed in one behaviour of SpecOutputs.
MaxOutOps == 3

InitialOutDoors == {<<T, S, Q>>, <<S, T, F>>, <<F, Q, T>>, <<Q, F, S>>}

OutInit == \E initial_doors \in InitialOutDoors : Constructed(initial_doors, <<>>)

OutSetParam ==
    \E n \in DOMAIN params, val \in {IntVal(2), IntVal(7)}, c \in BOOLEAN :
        nops < MaxOutOps /\ set_param(n, val, c, FALSE)

OutAddParam ==
    \E n \in {"y", "z"}, val \in {Empty, IntVal(2)}, r \in Restricts :
        nops < MaxOutOps /\ add_param(n, val, FALSE, r)

OutRunStep == nops < MaxOutOps /\ run_step

OutCall == \E k \in Keys(doors) : nops < MaxOutOps /\ call(k)

OutNext ==
    \/ OutSetParam
    \/ OutAddParam
    \/ OutRunStep
    \/ OutCall

SpecOutputs == OutInit /\ [][OutNext]_vars

----------------------------------------------------------------------------
(* Param objects on their own: construction, the value setter and the      *)
(* listeners.  A Param is [value, type, constant, restrict, lst], lst the  *)
(* list object it holds as _listeners.                                     *)

\* Operations performed in one behaviour of SpecParam.
MaxParamOps == 4

Listeners == {"l1", "l2"}

\* The values user code writes.
ParamValues == {IntVal(1), IntVal(5), StrVal(1)}

\* Param.__init__
ParamInit(value, constant, restrict, lst) ==
    [value |-> value, type |-> value.t, constant |-> constant,
     restrict |-> restrict, lst |-> lst]

\* Param._notify_listeners: each listener of the list, in list order, is
\* called with the Param; the call is recorded with what the Param holds.
NotifyListeners(obj, ls) ==
    [i \in 1..Len(ls) |->
        [listener |-> ls[i], value |-> obj.value, type |-> obj.type]]

\* A setter that stores and notifies before it looks at constant.
ParamSetLate(obj, ls, new_value) ==
    LET stored == [obj EXCEPT !.value = new_value, !.type = new_value.t]
    IN  IF obj.constant
        THEN [obj |-> stored, err |-> "ParameterError",
              notified |-> NotifyListeners(stored, ls)]
        ELSE IF ~Accepts(obj.restrict, new_value)
        THEN [obj |-> obj, err |-> "ParameterError", notified |-> <<>>]
        ELSE [obj |-> stored, err |-> "none",
              notified |-> NotifyListeners(stored, ls)]

\* A setter that notifies the listeners before it stores.
ParamSetNotifyFirst(obj, ls, new_value) ==
    IF obj.constant \/ ~Accepts(obj.restrict, new_value)
    THEN [obj |-> obj, err |-> "ParameterError", notified |-> <<>>]
    ELSE [obj |-> [obj EXCEPT !.value = new_value, !.type = new_value.t],
          err |-> "none", notified |-> NotifyListeners(obj, ls)]

\* Param.value (setter): [obj, err, notified].
ParamSet(obj, ls, new_value) ==
    IF obj.constant
    THEN [obj |-> obj, err |-> "ParameterError", notified |-> <<>>]
    ELSE IF ~Accepts(obj.restrict, new_value)
    THEN [obj |-> obj, err |-> "ParameterError", notified |-> <<>>]
    ELSE LET stored == [obj EXCEPT !.value = new_value,
                                   !.type = new_value.t]
         IN  [obj |-> stored, err |-> "none",
              notified |-> NotifyListeners(stored, ls)]

\* Param.add_listener: a listener already in the list is not added again.
AddListener(ls, listener) ==
    IF listener \in Range(ls) THEN ls ELSE Append(ls, listener)

\* list.remove: the first occurrence.
RemoveFirst(ls, listener) ==
    LET i == CHOOSE k \in 1..Len(ls) :
                 ls[k] = listener /\ \A m \in 1..(k - 1) : ls[m] # listener
    IN  SubSeq(ls, 1, i - 1) \o SubSeq(ls, i + 1, Len(ls))

ParamInitial == Constructed(<<>>, <<>>)

\* Param(name, value, constant, restrict[, listeners]): without listeners
\* the Param holds list 0, else the list handed in (empty or with l1).
NewParam ==
    \E o \in Objects \ DOMAIN pobj, constant \in BOOLEAN,
       restrict \in Restricts, given \in {"default", "empty", "one"} :
        /\ nops < MaxParamOps
        /\ nops' = nops + 1
        /\ pobj' = [k \in DOMAIN pobj \cup {o} |->
                       IF k = o
                       THEN ParamInit(IntVal(1), constant, restrict,
                                      IF given = "default" THEN 0 ELSE o)
                       ELSE pobj[k]]
        /\ plist' = IF given = "default" THEN plist
                     ELSE [plist EXCEPT ![o] = IF given = "one" THEN <<"l1">>
                                                ELSE <<>>]
        /\ plast' = PlainParamOp("new", o, "none")
        /\ UNCHANGED <<nvars, dvars, svars>>

\* param.value = new_value
SetParamObject ==
    \E o \in DOMAIN pobj, new_value \in ParamValues :
        LET r == ParamSet(pobj[o], plist[pobj[o].lst], new_value)
        IN  /\ nops < MaxParamOps
            /\ nops' = nops + 1
            /\ pobj' = [pobj EXCEPT ![o] = r.obj]
            /\ plast' = [op |-> "set", o |-> o, value |-> new_value,
                         err |-> r.err, notified |-> r.notified]
            /\ UNCHANGED <<plist, nvars, dvars, svars>>

\* param.add_listener(listener)
AddParamListener ==
    \E o \in DOMAIN pobj, listener \in Listeners :
        /\ nops < MaxParamOps
        /\ nops' = nops + 1
        /\ plist' = [plist EXCEPT ![pobj[o].lst] = AddListener(@, listener)]
        /\ plast' = PlainParamOp("add_listener", o, "none")
        /\ UNCHANGED <<pobj, nvars, dvars, svars>>

\* param.remove_listener(listener)
RemoveParamListener ==
    \E o \in DOMAIN pobj, listener \in Listeners :
        /\ nops < MaxParamOps
        /\ nops' = nops + 1
        /\ IF listener \in Range(plist[pobj[o].lst])
           THEN /\ plist' = [plist EXCEPT ![pobj[o].lst] =
                                              RemoveFirst(@, listener)]
                /\ plast' = PlainParamOp("remove_listener", o, "none")
           ELSE /\ plist' = plist
                /\ plast' = PlainParamOp("remove_listener", o, "ValueError")
        /\ UNCHANGED <<pobj, nvars, dvars, svars>>

ParamNext ==
    \/ NewParam
    \/ SetParamObject
    \/ AddParamListener
    \/ RemoveParamListener

SpecParam == ParamInitial /\ [][ParamNext]_vars

----------------------------------------------------------------------------
(* Finalization: a Neighborhood built with a finalization list, whose      *)
(* namespace user code fills before it calls finalize.                     *)

\* Operations performed on a Neighborhood with a finalization list.
MaxFinalOps == 3

\* The finalization lists handed to the constructor.
Finalizations == {<<INIT, F>>, <<F, G>>, <<S, G>>, <<G, H>>, <<T, Q>>}

FinalInit ==
    \E initial_doors \in {<<>>, <<F>>}, final \in Finalizations :
        ConstructedWith(initial_doors, <<>>, final)

FinalSetParam ==
    \E n \in DOMAIN params, c \in BOOLEAN :
        nops < MaxFinalOps /\ set_param(n, IntVal(2), c, FALSE)

FinalAddParam ==
    \E n \in {"x", "z", "w"}, val \in {Empty, IntVal(2)}, c \in BOOLEAN :
        nops < MaxFinalOps /\ add_param(n, val, c, "none")

FinalRunStep == nops < MaxFinalOps /\ run_step

FinalFinalize == nops < MaxFinalOps /\ finalize

FinalNext ==
    \/ FinalSetParam
    \/ FinalAddParam
    \/ FinalRunStep
    \/ FinalFinalize

SpecFinal == FinalInit /\ [][FinalNext]_vars

----------------------------------------------------------------------------
(* DynamicDoor objects used on their own.  A DynamicDoor is:               *)
(*   shape      the Door whose name, arguments, keyword_args and           *)
(*              return_vals it shows; 0 while these are "", {}, {} and []  *)
(*   bf         the Door whose _base_function (with function_initialized,  *)
(*              argmap, wrapped, typecheck) its __dict__ holds; 0 if none  *)
(*   cur, last  _cur_door and _last_door                                   *)
(*   generator  _door_generator, named after the object built with it      *)
(* A generator is a closure of user code: what it returns is an input of   *)
(* the operation that invokes it.                                          *)

\* Operations on Door objects in one behaviour.
MaxDoorOps == 4

DynObjects == {1, 2}

\* A DynamicDoor object as a value.
DynVal(o) == [t |-> "DynamicDoor", v |-> o, c |-> 0]

\* isinstance(value, BaseDoor)
IsBaseDoor(value) == value.t \in {"Door", "DynamicDoor"}

\* DynamicDoor.__init__(door_generator)
DynamicDoorInit(o) ==
    [shape |-> 0, bf |-> 0, cur |-> NoneVal, last |-> NoneVal,
     generator |-> o]

\* The loop of update over updated_door.__dict__: a Door holds the shape
\* and the _base_function; a DynamicDoor holds the shape, its generator,
\* _cur_door and _last_door, and the _base_function once it was updated.
CopyAttributes(self, updated_door, s) ==
    IF updated_door.t = "Door"
    THEN [self EXCEPT !.shape = updated_door.v, !.bf = updated_door.v]
    ELSE LET other == s[updated_door.v]
         IN  [self EXCEPT !.shape = other.shape,
                          !.bf = IF other.bf # 0 THEN other.bf ELSE @,
                          !.cur = other.cur,
                          !.last = other.last,
                          !.generator = other.generator]

\* An update that copies whatever the generator returned.
DynamicDoorUpdateUnchecked(s, o, updated_door) ==
    LET s1 == [s EXCEPT ![o].last = s[o].cur]
    IN  [s |-> [s1 EXCEPT ![o].cur = updated_door], err |-> "none"]

\* DynamicDoor.update, the generator returning updated_door: [s, err].
DynamicDoorUpdate(s, o, updated_door) ==
    LET s1 == [s EXCEPT ![o].last = s[o].cur]
    IN  IF ~IsBaseDoor(updated_door)
        THEN [s |-> s1, err |-> "TypeError"]
        ELSE [s |-> [s1 EXCEPT ![o] =
                        [CopyAttributes(s1[o], updated_door, s1)
                            EXCEPT !.cur = updated_door]],
              err |-> "none"]

\* BaseDoor.__call__ through Door.__call__ (no argmap, not wrapped,
\* typecheck off): kwargs are filtered to self.arguments.
DoorCall(self, kwargs) ==
    IF self.bf = 0 THEN [err |-> "AttributeError", out |-> NoneVal]
    ELSE LET names == IF self.shape = 0 THEN {}
                      ELSE Range(Arguments(self.shape))
             input_kwargs == [k \in DOMAIN kwargs \cap names |-> kwargs[k]]
         IN  BaseFunction(self.bf, 0, input_kwargs)

\* self._base_function(**kwargs): the callable itself, which takes no
\* keyword it does not declare.
CallWithoutUpdate(self, kwargs) ==
    IF self.bf = 0 THEN [err |-> "AttributeError", out |-> NoneVal]
    ELSE IF ~(DOMAIN kwargs \subseteq Range(Arguments(self.bf)))
    THEN [err |-> "TypeError", out |-> NoneVal]
    ELSE BaseFunction(self.bf, 0, kwargs)

\* What the generators of the scenario return.
Generated ==
    {DoorVal(F, 0), DoorVal(G, 0), IntVal(1), NoneVal}
        \cup {DynVal(o) : o \in DOMAIN dobj}

\* The keyword arguments the scenario calls a DynamicDoor with.
DoorKwargs == {[n \in {"x"} |-> IntVal(2)], [n \in {"z"} |-> IntVal(3)]}

\* What an update that succeeded generated: the object returned, and the
\* shape and _base_function it had then.
Generation(s, updated_door) ==
    [door |-> updated_door,
     shape |-> CASE updated_door.t = "Door" -> updated_door.v
                 [] updated_door.t = "DynamicDoor" -> s[updated_door.v].shape
                 [] OTHER -> 0,
     bf |-> CASE updated_door.t = "Door" -> updated_door.v
              [] updated_door.t = "DynamicDoor" -> s[updated_door.v].bf
              [] OTHER -> 0]

Logged(r, o, updated_door) ==
    IF r.err = "none"
    THEN [dgen EXCEPT ![o] = Append(@, Generation(dobj, updated_door))]
    ELSE dgen

DynDoorInit == Constructed(<<>>, <<>>)

\* door.DynamicDoor(generator)
NewDynamicDoor ==
    \E o \in DynObjects \ DOMAIN dobj :
        /\ nops < MaxDoorOps
        /\ o = 1 \/ o - 1 \in DOMAIN dobj
        /\ nops' = nops + 1
        /\ dobj' = [k \in DOMAIN dobj \cup {o} |->
                       IF k = o THEN DynamicDoorInit(o) ELSE dobj[k]]
        /\ dgen' = [k \in DOMAIN dobj \cup {o} |->
                       IF k = o THEN <<>> ELSE dgen[k]]
        /\ dlast' = [op |-> "__init__", o |-> o, err |-> "none"]
        /\ UNCHANGED <<nvars, pvars, svars>>

\* dynamic_door.update()
UpdateDynamicDoor ==
    \E o \in DOMAIN dobj, updated_door \in Generated :
        LET r == DynamicDoorUpdate(dobj, o, updated_door)
        IN  /\ nops < MaxDoorOps
            /\ nops' = nops + 1
            /\ dobj' = r.s
            /\ dgen' = Logged(r, o, updated_door)
            /\ dlast' = [op |-> "update", o |-> o, err |-> r.err,
                         generator |-> dobj[o].generator,
                         generated |-> updated_door]
            /\ UNCHANGED <<nvars, pvars, svars>>

\* dynamic_door(**kwargs)
CallDynamicDoor ==
    \E o \in DOMAIN dobj, updated_door \in Generated, kwargs \in DoorKwargs :
        LET r == DynamicDoorUpdate(dobj, o, updated_door)
            c == IF r.err # "none" THEN [err |-> r.err, out |-> NoneVal]
                 ELSE DoorCall(r.s[o], kwargs)
        IN  /\ nops < MaxDoorOps
            /\ nops' = nops + 1
            /\ dobj' = r.s
            /\ dgen' = Logged(r, o, updated_door)
            /\ dlast' = [op |-> "__call__", o |-> o, err |-> c.err,
                         generator |-> dobj[o].generator,
                         generated |-> updated_door,
                         called |-> IF r.err = "none" THEN r.s[o].bf ELSE 0,
                         kwargs |-> kwargs, ret |-> c.out]
            /\ UNCHANGED <<nvars, pvars, svars>>

\* dynamic_door.call_without_update(**kwargs)
CallDynamicDoorWithoutUpdate ==
    \E o \in DOMAIN dobj, kwargs \in DoorKwargs :
        LET c == CallWithoutUpdate(dobj[o], kwargs)
        IN  /\ nops < MaxDoorOps
            /\ nops' = nops + 1
            /\ dlast' = [op |-> "call_without_update", o |-> o,
                         err |-> c.err, generator |-> 0,
                         called |-> dobj[o].bf,
                         kwargs |-> kwargs, ret |-> c.out]
            /\ UNCHANGED <<dobj, dgen, nvars, pvars, svars>>

DynDoorNext ==
    \/ NewDynamicDoor
    \/ UpdateDynamicDoor
    \/ CallDynamicDoor
    \/ CallDynamicDoorWithoutUpdate

SpecDynDoor == DynDoorInit /\ [][DynDoorNext]_vars

----------------------------------------------------------------------------
(* Door objects with an argument mapping.  The dicts arguments and         *)
(* keyword_args are sequences of entries in insertion order: name is the   *)
(* key, of the argument of the callable whose annotation or default Param  *)
(* the entry holds, pname the _name of that Param.  argmap is the sequence *)
(* of the mapping's items [key, value]: key the mapped name, value the     *)
(* name it stands for.                                                     *)

\* Operations on a Door with an argument mapping in one behaviour.
MaxMapOps == 2

\* The characters of the names of the scenario.
Spelling(n) ==
    CASE n = "xy" -> <<"x", "y">>
      [] n = "1a" -> <<"1", "a">>
      [] OTHER -> <<n>>

Letters == {"a", "b", "k", "w", "x", "y", "z", "_"}

Digits == {"1"}

\* re.match(r"^[a-zA-Z_]([a-zA-Z0-9_])*$", key)
IsMapName(key) ==
    LET c == Spelling(key)
    IN  /\ c[1] \in Letters
        /\ \A i \in 2..Len(c) : c[i] \in Letters \cup Digits

\* a in b, on strings.
IsSubstring(a, b) ==
    \E i \in 1..Len(Spelling(b)) :
        /\ i + Len(Spelling(a)) - 1 <= Len(Spelling(b))
        /\ SubSeq(Spelling(b), i, i + Len(Spelling(a)) - 1) = Spelling(a)

DictKeys(d) == {d[i].name : i \in 1..Len(d)}

DictOrder(d) == [i \in 1..Len(d) |-> d[i].name]

DictGet(d, k) == d[CHOOSE i \in 1..Len(d) : d[i].name = k]

\* d[e.name] = e: a known key keeps its place.
DictPut(d, e) ==
    IF e.name \in DictKeys(d)
    THEN [i \in 1..Len(d) |-> IF d[i].name = e.name THEN e ELSE d[i]]
    ELSE Append(d, e)

\* del d[k]
DictDel(d, k) == SelectSeq(d, LAMBDA e : e.name # k)

\* d[to] = d[from]; del d[from]
DictMove(d, from, to) ==
    DictDel(DictPut(d, [DictGet(d, from) EXCEPT !.name = to]), from)

MapKeys(argmap) == {argmap[i].key : i \in 1..Len(argmap)}

MapGet(argmap, k) == argmap[CHOOSE i \in 1..Len(argmap) : argmap[i].key = k].value

\* BaseDoor._inspect_base_callable on callable fn, for a Door with argmap.
InspectedDoor(fn, argmap) ==
    [fn |-> fn,
     arguments |-> [i \in 1..Len(Arguments(fn)) |->
                       [name |-> Arguments(fn)[i], of |-> Arguments(fn)[i]]],
     keyword_args |-> [i \in 1..Len(Arguments(fn)) |->
                          [name |-> Arguments(fn)[i], of |-> Arguments(fn)[i],
                           pname |-> Arguments(fn)[i]]],
     return_vals |-> ReturnVals(fn),
     argmap |-> argmap]

\* map_arguments, one item of the argmap: [door, err].
MapItem(self, mapped_name, old_name) ==
    IF mapped_name \in DictKeys(self.arguments)
    THEN [door |-> self, err |-> "DoorError"]
    ELSE IF /\ old_name \notin DictKeys(self.arguments)
            /\ ~\E i \in 1..Len(self.return_vals) :
                   IsSubstring(old_name, self.return_vals[i])
    THEN [door |-> self, err |-> "DoorError"]
    ELSE [door |->
             [self EXCEPT
                 !.arguments =
                     IF old_name \in DictKeys(@)
                     THEN DictMove(@, old_name, mapped_name) ELSE @,
                 !.keyword_args =
                     IF old_name \in DictKeys(@)
                     THEN DictMove(
                              [i \in 1..Len(@) |->
                                  IF @[i].name = old_name
                                  THEN [@[i] EXCEPT !.pname = mapped_name]
                                  ELSE @[i]],
                              old_name, mapped_name)
                     ELSE @,
                 !.return_vals =
                     [i \in 1..Len(@) |->
                         IF @[i] = old_name THEN mapped_name ELSE @[i]]],
          err |-> "none"]

RECURSIVE MapItems(_, _)
MapItems(r, i) ==
    IF r.err # "none" \/ i > Len(r.door.argmap) THEN r
    ELSE MapItems(MapItem(r.door, r.door.argmap[i].key,
                          r.door.argmap[i].value), i + 1)

\* rev_argmap[k] if k in rev_argmap else k: a later item wins.
Reversed(argmap, k) ==
    LET at == {i \in 1..Len(argmap) : argmap[i].value = k}
    IN  IF at = {} THEN k
        ELSE argmap[CHOOSE i \in at : \A j \in at : j <= i].key

\* {a: d[a] for a in order}, None when some a is no key of d.
RECURSIVE Reordered(_, _, _)
Reordered(d, order, i) ==
    IF i > Len(order) THEN <<>>
    ELSE LET rest == Reordered(d, order, i + 1)
         IN  IF order[i] \in {order[j] : j \in 1..(i - 1)} THEN rest
             ELSE <<DictGet(d, order[i])>> \o rest

\* Door.map_arguments: [door, err].
MapArguments(self) ==
    IF self.argmap = <<>> THEN [door |-> self, err |-> "none"]
    ELSE IF \E i \in 1..Len(self.argmap) : ~IsMapName(self.argmap[i].key)
    THEN [door |-> self, err |-> "DoorError"]
    ELSE LET r == MapItems([door |-> self, err |-> "none"], 1)
             arg_order == [i \in 1..Len(self.arguments) |->
                              Reversed(self.argmap, self.arguments[i].name)]
             kwarg_order == [i \in 1..Len(self.keyword_args) |->
                                Reversed(self.argmap,
                                         self.keyword_args[i].name)]
         IN  IF r.err # "none" THEN r
             ELSE IF \/ ~(Range(arg_order) \subseteq
                              DictKeys(r.door.arguments))
                     \/ ~(Range(kwarg_order) \subseteq
                              DictKeys(r.door.keyword_args))
             THEN [door |-> r.door, err |-> "KeyError"]
             ELSE [door |->
                      [r.door EXCEPT
                          !.arguments = Reordered(@, arg_order, 1),
                          !.keyword_args = Reordered(@, kwarg_order, 1)],
                   err |-> "none"]

\* The loop of original_arguments and of original_kw_arguments over dict d.
RECURSIVE Originals(_, _, _, _)
Originals(copy, keys, argmap, i) ==
    IF i > Len(keys) THEN copy
    ELSE Originals(
             IF keys[i] \in MapKeys(argmap)
             THEN DictMove(copy, keys[i], MapGet(argmap, keys[i]))
             ELSE copy,
             keys, argmap, i + 1)

\* Door.original_arguments
OriginalArguments(self) ==
    Originals(self.arguments, DictOrder(self.arguments), self.argmap, 1)

\* Door.original_kw_arguments
OriginalKwArguments(self) ==
    Originals(self.keyword_args, DictOrder(self.keyword_args), self.argmap, 1)

\* Door.original_return_vals
OriginalReturnVals(self) ==
    [i \in 1..Len(self.return_vals) |->
        IF self.return_vals[i] \in MapKeys(self.argmap)
        THEN MapGet(self.argmap, self.return_vals[i])
        ELSE self.return_vals[i]]

\* Door.required_arguments: the arguments whose keyword_args Param is Empty.
MappedRequiredArguments(self) ==
    LET required(a) ==
            /\ a \in DictKeys(self.keyword_args)
            /\ IsEmpty(DeclaredDefault(self.fn,
                                       DictGet(self.keyword_args, a).of))
    IN  SelectSeq(DictOrder(self.arguments), required)

\* Door(fn, argument_mapping=argmap): [door, err].
NewMappedDoor(fn, argmap) == MapArguments(InspectedDoor(fn, argmap))

\* door.argument_mapping = value: [door, err].
SetArgumentMapping(self, value) ==
    MapArguments([self EXCEPT !.arguments = OriginalArguments(self),
                              !.keyword_args = OriginalKwArguments(self),
                              !.argmap = value])

\* Door.__call__(**kwargs), typecheck off: [door, err, out].  kwargs is a
\* sequence of [name, value]; a later item with the same translated name
\* wins.  When the callable raises, the original dicts stay in place.
MappedCall(self, kwargs) ==
    LET items == IF self.argmap = <<>> THEN kwargs
                 ELSE [i \in 1..Len(kwargs) |->
                          [name |-> IF kwargs[i].name \in MapKeys(self.argmap)
                                    THEN MapGet(self.argmap, kwargs[i].name)
                                    ELSE kwargs[i].name,
                           value |-> kwargs[i].value]]
        called == IF self.argmap = <<>> THEN self
                  ELSE [self EXCEPT !.arguments = OriginalArguments(self),
                                    !.keyword_args = OriginalKwArguments(self)]
        names == {items[i].name : i \in 1..Len(items)}
                     \cap DictKeys(called.arguments)
        input_kwargs ==
            [a \in names |->
                items[CHOOSE i \in 1..Len(items) :
                          /\ items[i].name = a
                          /\ \A j \in 1..Len(items) :
                                 items[j].name = a => j <= i].value]
        res == IF names \subseteq Range(Arguments(self.fn))
               THEN BaseFunction(self.fn, 0, input_kwargs)
               ELSE [err |-> "TypeError", out |-> NoneVal]
    IN  [door |-> IF res.err = "none" THEN self ELSE called,
         err |-> res.err, out |-> res.out]

\* The names the scenario maps to, and the names they stand for.
MappedNames == {"a", "x", "z", "1a"}

OldNames == {"x", "y", "z"}

MapItemsOf == {[key |-> k, value |-> v] : k \in MappedNames, v \in OldNames}

\* The argument mappings of the scenario: dicts of at most two items.
ArgMaps ==
    {<<>>} \cup {<<m>> : m \in MapItemsOf}
           \cup {m \in MapItemsOf \X MapItemsOf : m[1].key # m[2].key}

\* The callables the scenario wraps with an argument mapping.
MappedFunctions == {F, H}

\* The keyword arguments of a call: some visible arguments of the Door, the
\* first given 2 and the second 5.
CallKwargs(self) ==
    LET names == DictOrder(self.arguments)
        vals == [i \in 1..Len(names) |->
                    [name |-> names[i],
                     value |-> IF i = 1 THEN IntVal(2) ELSE IntVal(5)]]
    IN  {SelectSeq(vals, LAMBDA e : e.name \in K) : K \in SUBSET Range(names)}

MapInit == Constructed(<<>>, <<>>)

MapRecord(op, r, fn, argmap, kwargs, out) ==
    [op |-> op, o |-> 1, err |-> r.err, fn |-> fn, argmap |-> argmap,
     kwargs |-> kwargs, ret |-> out, door |-> r.door]

\* door = Door(fn, argument_mapping=argmap)
NewDoor ==
    \E fn \in MappedFunctions, argmap \in ArgMaps :
        LET r == NewMappedDoor(fn, argmap)
        IN  /\ nops < MaxMapOps
            /\ dobj = <<>>
            /\ nops' = nops + 1
            /\ dobj' = IF r.err = "none" THEN <<r.door>> ELSE dobj
            /\ dlast' = MapRecord("Door", r, fn, argmap, <<>>, NoneVal)
            /\ UNCHANGED <<dgen, nvars, pvars, svars>>

\* door.argument_mapping = argmap
RemapDoor ==
    /\ nops < MaxMapOps
    /\ dobj # <<>>
    /\ \E argmap \in {m \in ArgMaps : Len(m) <= 1} :
           LET r == SetArgumentMapping(dobj[1], argmap)
           IN  /\ nops' = nops + 1
               /\ dobj' = <<r.door>>
               /\ dlast' = MapRecord("argument_mapping", r, dobj[1].fn,
                                     argmap, <<>>, NoneVal)
               /\ UNCHANGED <<dgen, nvars, pvars, svars>>

\* door(**kwargs)
CallMappedDoor ==
    /\ nops < MaxMapOps
    /\ dobj # <<>>
    /\ \E kwargs \in CallKwargs(dobj[1]) :
           LET r == MappedCall(dobj[1], kwargs)
           IN  /\ nops' = nops + 1
               /\ dobj' = <<r.door>>
               /\ dlast' = MapRecord("__call__", r, dobj[1].fn,
                                     dobj[1].argmap, kwargs, r.out)
               /\ UNCHANGED <<dgen, nvars, pvars, svars>>

MapNext ==
    \/ NewDoor
    \/ RemapDoor
    \/ CallMappedDoor

SpecMap == MapInit /\ [][MapNext]_vars

----------------------------------------------------------------------------
(* BaseDoor construction over the source of a callable.  The callable is   *)
(* written as the return statements of its body, in order; a statement is  *)
(* the text that follows "return " on its line, a sequence of characters,  *)
(* and a name found in it is the sequence of its characters.               *)

\* The return statements of a callable, and the characters of each.
MaxReturns == 2

MaxExprLen == 3

\* The characters user code writes in a return statement.
Chars == {"x", "y", "7", ",", "+", " "}

\* \w of the regular expressions: letters, digits and the underscore.
WordChars == {"x", "y", "7"}

DigitChars == {"7"}

\* The Python parser on the text of a return statement, one character at a
\* time: the state after str, "bad" when str starts no expression list.
RECURSIVE Parsed(_, _)
Parsed(str, state) ==
    IF str = <<>> \/ state = "bad" THEN state
    ELSE LET c == Head(str)
             next ==
                 CASE c = " " ->
                          IF state \in {"id", "num"} THEN "after" ELSE state
                   [] c = "+" -> "need"
                   [] c = "," ->
                          IF state \in {"id", "num", "after"} THEN "comma"
                          ELSE "bad"
                   [] c \in DigitChars ->
                          IF state = "after" THEN "bad"
                          ELSE IF state = "id" THEN "id" ELSE "num"
                   [] OTHER ->
                          IF state \in {"after", "num"} THEN "bad" ELSE "id"
         IN  Parsed(Tail(str), next)

\* The text is what a return statement of a function can hold: nothing, or
\* sums of names and numbers separated by commas.
IsExpressionList(str) == Parsed(str, "start") \in {"start", "id", "num",
                                                   "after", "comma"}

\* ret_string.split(",")
RECURSIVE Split(_)
Split(str) ==
    IF \A i \in 1..Len(str) : str[i] # "," THEN <<str>>
    ELSE LET c == CHOOSE i \in 1..Len(str) :
                      /\ str[i] = ","
                      /\ \A j \in 1..(i - 1) : str[j] # ","
         IN  <<SubSeq(str, 1, c - 1)>> \o Split(SubSeq(str, c + 1, Len(str)))

\* v.strip()
RECURSIVE Strip(_)
Strip(str) ==
    IF str = <<>> THEN str
    ELSE IF Head(str) = " " THEN Strip(Tail(str))
    ELSE IF str[Len(str)] = " " THEN Strip(SubSeq(str, 1, Len(str) - 1))
    ELSE str

\* re.match(r"\w+$", val)
WordMatch(val) == val # <<>> /\ \A i \in 1..Len(val) : val[i] \in WordChars

\* The names one return statement gives: vals as the loop body leaves it.
StatementVals(ret_string) ==
    LET pieces == Split(ret_string)
        vals == [i \in 1..Len(pieces) |-> Strip(pieces[i])]
    IN  IF \A i \in 1..Len(vals) : vals[i] = <<>> THEN <<>>
        ELSE IF \E i \in 1..Len(vals) : ~WordMatch(vals[i]) THEN <<>>
        ELSE vals

\* BaseDoor._get_return_vals on the return statements of the body.
RECURSIVE GetReturnVals(_)
GetReturnVals(lines) ==
    IF lines = <<>> THEN <<>>
    ELSE LET vals == StatementVals(Head(lines))
         IN  (IF vals # <<>> THEN <<vals>> ELSE <<>>)
                 \o GetReturnVals(Tail(lines))

\* The return values BaseDoor._inspect_base_callable settles on:
\* [err, return_vals].
InspectReturnVals(lines) ==
    LET return_vals == GetReturnVals(lines)
    IN  IF \E i, j \in 1..Len(return_vals) : return_vals[i] # return_vals[j]
        THEN [err |-> "DoorError", return_vals |-> <<>>]
        ELSE [err |-> "none",
              return_vals |-> IF return_vals # <<>> THEN return_vals[1]
                              ELSE <<>>]

SourceInit == Constructed(<<>>, <<>>)

\* User code starts another return statement in the body.
WriteReturn ==
    /\ dlast.op = "none"
    /\ Len(source) < MaxReturns
    /\ \A i \in 1..Len(source) : IsExpressionList(source[i])
    /\ source' = Append(source, <<>>)
    /\ UNCHANGED <<nops, nvars, pvars, dvars>>

\* User code writes one more character of the last return statement.
WriteChar ==
    \E c \in Chars :
        /\ dlast.op = "none"
        /\ source # <<>>
        /\ Len(source[Len(source)]) < MaxExprLen
        /\ source' = [source EXCEPT ![Len(source)] = Append(@, c)]
        /\ UNCHANGED <<nops, nvars, pvars, dvars>>

\* door = BaseDoor(function)
NewBaseDoor ==
    LET r == InspectReturnVals(source)
    IN  /\ dlast.op = "none"
        /\ \A i \in 1..Len(source) : IsExpressionList(source[i])
        /\ dlast' = [op |-> "BaseDoor", o |-> 1, err |-> r.err,
                     return_vals |-> r.return_vals]
        /\ UNCHANGED <<nops, dobj, dgen, nvars, pvars, svars>>

SourceNext ==
    \/ WriteReturn
    \/ WriteChar
    \/ NewBaseDoor

SpecSource == SourceInit /\ [][SourceNext]_vars

----------------------------------------------------------------------------
(* BaseDoor objects called by user code.  A BaseDoor is its callable fn and *)
(* its typecheck flag (returned_def_to_door keeps its default, False);      *)
(* keyword arguments are a sequence of [name, value] in dict order.         *)

\* Calls of a BaseDoor in one behaviour.
MaxCallOps == 2

\* isinstance(v, _type) of the type check: "none" when it is True,
\* "ParameterError" when it is False, and the TypeError isinstance raises
\* when _type is no type.
InstanceCheck(v, _type) ==
    IF _type = "Empty" THEN "TypeError"
    ELSE IF v.t = _type THEN "none"
    ELSE "ParameterError"

\* BaseDoor.__call__ without the type check.
BaseDoorCallUnchecked(self, kwargs) ==
    LET input_kwargs == SelectSeq(kwargs, LAMBDA e :
                            e.name \in Range(Arguments(self.fn)))
        in == [a \in {input_kwargs[i].name : i \in 1..Len(input_kwargs)} |->
                  (CHOOSE e \in Range(input_kwargs) : e.name = a).value]
        res == BaseFunction(self.fn, 0, in)
    IN  [err |-> res.err, out |-> res.out, called |-> TRUE]

\* BaseDoor.__call__(**kwargs): [err, out, called], called telling whether
\* the callable was called.
BaseDoorCall(self, kwargs) ==
    LET input_kwargs == SelectSeq(kwargs, LAMBDA e :
                            e.name \in Range(Arguments(self.fn)))
        check(i) == InstanceCheck(input_kwargs[i].value,
                                  Annotation(self.fn, input_kwargs[i].name))
        failing == {i \in 1..Len(input_kwargs) : check(i) # "none"}
    IN  IF self.typecheck /\ failing # {}
        THEN [err |-> check(CHOOSE i \in failing : \A j \in failing : i <= j),
              out |-> NoneVal, called |-> FALSE]
        ELSE BaseDoorCallUnchecked(self, kwargs)

\* The callables user code wraps, and what it passes to them.
CalledFunctions == {F, FT, PO}

CallNames == {"x", "y", "q"}

CallValues == {IntVal(2), StrVal(1)}

\* The keyword arguments of a call: at most two names, each with a value.
CallItems == {[name |-> n, value |-> v] : n \in CallNames, v \in CallValues}

CallDicts ==
    {<<>>} \cup {<<e>> : e \in CallItems}
           \cup {d \in CallItems \X CallItems : d[1].name # d[2].name}

CallInit == Constructed(<<>>, <<>>)

\* The loop of BaseDoor._inspect_base_callable over the signature:
\* [err, positional_only]; a positional-only argument is noted, not refused.
InspectArguments(fn) ==
    [err |-> "none", positional_only |-> PositionalOnly(fn)]

\* door = BaseDoor(fn, typecheck=typecheck)
NewCalledDoor ==
    \E fn \in CalledFunctions, typecheck \in BOOLEAN :
        LET r == InspectArguments(fn)
        IN  /\ dobj = <<>>
            /\ dobj' = IF r.err = "none"
                       THEN <<[fn |-> fn, typecheck |-> typecheck,
                               positional_only |-> r.positional_only]>>
                       ELSE dobj
            /\ dlast' = [op |-> "BaseDoor", o |-> 1, err |-> r.err,
                         fn |-> fn]
        /\ UNCHANGED <<nops, dgen, nvars, pvars, svars>>

\* door(**kwargs)
CallBaseDoor ==
    /\ nops < MaxCallOps
    /\ dobj # <<>>
    /\ \E kwargs \in CallDicts :
           LET r == BaseDoorCall(dobj[1], kwargs)
           IN  /\ nops' = nops + 1
               /\ dlast' = [op |-> "__call__", o |-> 1, err |-> r.err,
                            kwargs |-> kwargs, ret |-> r.out,
                            called |-> r.called]
               /\ UNCHANGED <<dobj, dgen, nvars, pvars, svars>>

CallNext ==
    \/ NewCalledDoor
    \/ CallBaseDoor

SpecCall == CallInit /\ [][CallNext]_vars

----------------------------------------------------------------------------
(* Properties.                                                             *)

\* The names of the claims' vocabulary.
Registered == Keys(doors)

\* A list that holds every registered name exactly once and nothing else.
IsPermutationOfRegistered(order) ==
    /\ Len(order) = Cardinality(Registered)
    /\ Range(order) = Registered

CurrentValue(n) == ValueOf(params, keyword_args, n)

\* C1: the call order is a permutation of the registered Door names: every
\* registered name occurs in it exactly once and it holds no other name.
C1_CallOrderIsPermutation == IsPermutationOfRegistered(call_order)

\* C2: order_doors succeeds only when the new order is a permutation of the
\* registered names; for every other list it raises ValueError or KeyError
\* and leaves the call order unchanged.
C2_OrderDoorsOnlyPermutation ==
    [][last'.op = "order_doors" =>
          /\ last'.err = "none" =>
                 /\ IsPermutationOfRegistered(last'.order)
                 /\ call_order' = last'.order
          /\ ~IsPermutationOfRegistered(last'.order) =>
                 /\ last'.err \in {"ValueError", "KeyError"}
                 /\ call_order' = call_order]_vars

\* The required inputs as specified: every input some registered Door
\* declares without a default, minus every declared output of a registered
\* Door.
DefaultLess(ds, kw) ==
    UNION {Range(RequiredArguments(ds[i], kw)) : i \in 1..Len(ds)}

Produced(ds) == UNION {Range(EntryReturnVals(ds[i])) : i \in 1..Len(ds)}

SpecifiedRequired(ds, kw) == DefaultLess(ds, kw) \ Produced(ds)

\* The state in which run_step validates: after its initialization phase.
AtValidation == Initialize(Here, initialization, has_initialized)

\* C3: when run_step finds the Param of a required input (default-less, not
\* produced by any Door) Unset, it raises ParameterError, invokes no
\* registered Door and changes no Param.
C3_MissingInputAborts ==
    [][(/\ last'.op = "run_step"
        /\ AtValidation.err = "none"
        /\ \E n \in SpecifiedRequired(doors, keyword_args) :
              /\ n \in DOMAIN AtValidation.params
              /\ IsEmpty(ValueOf(AtValidation.params, AtValidation.kw, n)))
       => /\ last'.err = "ParameterError"
          /\ last'.invoked = <<>>
          /\ params' = AtValidation.params
          /\ keyword_args' = AtValidation.kw]_vars

\* C4: the required inputs run_step validates are the default-less inputs of
\* the registered Doors minus the declared outputs of the registered Doors.
C4_RequiredParameters ==
    RequiredParameters(doors, keyword_args)
        = SpecifiedRequired(doors, keyword_args)

\* C5: a successful run_step invokes exactly the registered Doors, each once,
\* in call order, each seeing the outputs written before it in the step:
\* with f(x, y=1) -> z, then g(z) -> w, x = 2 gives z = 3 and w = 6.
C5_StepInvokesRegisteredOnce ==
    (last.op = "run_step" /\ last.err = "none")
    => /\ last.invoked = call_order
       /\ IsPermutationOfRegistered(last.invoked)
       /\ (/\ call_order = <<"f", "g">>
           /\ Lookup(doors, "f").id = F
           /\ CurrentValue("x") = IntVal(2)
           /\ CurrentValue("y") = IntVal(1))
          => CurrentValue("z") = IntVal(3) /\ CurrentValue("w") = IntVal(6)

\* C6: a constant Param that holds a value is changed by no operation other
\* than set_param with ignore_constant.
C6_ConstantOnlyForced ==
    [][\A n \in DOMAIN params :
          (/\ params[n].constant
           /\ ~IsEmpty(CurrentValue(n))
           /\ ~(last'.op = "set_param" /\ last'.force))
          => /\ params'[n] = params[n]
             /\ ValueOf(params', keyword_args', n) = CurrentValue(n)]_vars


\* A Param that is constant and holds a value.
ConstantValued(ps, kw, n) ==
    n \in DOMAIN ps /\ ps[n].constant /\ ~IsEmpty(ValueOf(ps, kw, n))

HasConstantOutput(e) ==
    \E i \in 1..Len(EntryReturnVals(e)) :
        ConstantValued(params, keyword_args, EntryReturnVals(e)[i])

\* The first output of a Door whose Param is constant and holds a value.
FirstConstantOutput(e) ==
    LET outs == EntryReturnVals(e)
        i == CHOOSE k \in 1..Len(outs) :
                 /\ ConstantValued(params, keyword_args, outs[k])
                 /\ \A m \in 1..(k - 1) :
                        ~ConstantValued(params, keyword_args, outs[m])
    IN  outs[i]

\* C7: when run_step reaches an output whose Param is constant and holds a
\* value (the Door's callable returned and its earlier outputs were stored),
\* it raises ParameterError for that output, the Param keeps its value, and
\* no Door later in the call order is invoked.
C7_ConstantOutputStopsStep ==
    [][last'.op = "run_step" =>
          /\ \A n \in DOMAIN params :
                 ConstantValued(params, keyword_args, n) =>
                     /\ params'[n] = params[n]
                     /\ ValueOf(params', keyword_args', n) = CurrentValue(n)
          /\ \A j \in 1..Len(last'.invoked) :
                 LET e == Lookup(doors', last'.invoked[j])
                 IN  HasConstantOutput(e) =>
                         /\ j = Len(last'.invoked)
                         /\ last'.err # "none"
                         /\ (last'.returned = j /\ last'.err # "KeyError") =>
                                /\ last'.err = "ParameterError"
                                /\ last'.failed = FirstConstantOutput(e)]_vars

\* C7 happens: a step stopped at a constant output of an invoked Door, with
\* a Door of the call order left uninvoked.
C7_Witness ==
    /\ last.op = "run_step"
    /\ last.err = "ParameterError"
    /\ last.invoked # <<>>
    /\ last.returned = Len(last.invoked)
    /\ ConstantValued(params, keyword_args, last.failed)
    /\ Len(last.invoked) < Len(call_order)


\* Whether a log of writes holds one of Param n, and the last value written.
Written(ws, n) == \E i \in 1..Len(ws) : ws[i].name = n

LastWritten(ws, n) ==
    LET i == CHOOSE k \in 1..Len(ws) :
                 /\ ws[k].name = n
                 /\ \A m \in (k + 1)..Len(ws) : ws[m].name # n
    IN  ws[i].value

\* The writes of a step's call order: those after its initialization phase.
DoorWrites(l) == SubSeq(l.writes, l.ninit + 1, Len(l.writes))

\* run_step got past its initialization phase and its validation, and then
\* failed.
FailedInCallOrder ==
    /\ last'.op = "run_step"
    /\ last'.err # "none"
    /\ AtValidation.err = "none"
    /\ Missing(AtValidation) = {}

\* C8 as stated: when run_step fails at a Door of the call order, every
\* Param the Doors of the call order wrote keeps its new value and every
\* other Param keeps the value it had before the step.
C8_OtherParamsAsBeforeStep ==
    [][FailedInCallOrder =>
          \A n \in DOMAIN params :
              ValueOf(params', keyword_args', n) =
                  IF Written(DoorWrites(last'), n)
                  THEN LastWritten(DoorWrites(last'), n)
                  ELSE CurrentValue(n)]_vars

\* C8: when run_step fails at a Door of the call order, every Param written
\* during the step (by its initialization phase, by the earlier Doors or by
\* the earlier outputs of the failing Door) keeps the last value written to
\* it, and every Param not written keeps the value it had before the step.
C8_FailFastNoRollback ==
    [][FailedInCallOrder =>
          \A n \in DOMAIN params :
              IF Written(last'.writes, n)
              THEN ValueOf(params', keyword_args', n) =
                       LastWritten(last'.writes, n)
              ELSE /\ params'[n] = params[n]
                   /\ ValueOf(params', keyword_args', n) = CurrentValue(n)]_vars

\* C8 happens: the second Door of a step failed after the call order had
\* written Params, and the values written are in place.
C8_Witness ==
    /\ last.op = "run_step"
    /\ last.err # "none"
    /\ Len(last.invoked) = 2
    /\ DoorWrites(last) # <<>>
    /\ \A i \in 1..Len(DoorWrites(last)) :
           LET n == DoorWrites(last)[i].name
           IN  /\ n \in DOMAIN params
               /\ CurrentValue(n) = LastWritten(DoorWrites(last), n)

\* C9: add_door without overwrite_defaults leaves the value of every Param
\* an argument of the Door names as it was; with overwrite_defaults the Param
\* of every argument holds the default the Door declares (Empty if none).
C9_RegisterKeepsOrResets ==
    [][(last'.op = "add_door" /\ last'.err = "none") =>
          \A a \in Range(Arguments(last'.d)) :
              IF last'.flag
              THEN /\ a \in DOMAIN params'
                   /\ ValueOf(params', keyword_args', a) =
                          DeclaredDefault(last'.d, a)
              ELSE a \in DOMAIN params =>
                       ValueOf(params', keyword_args', a) =
                           CurrentValue(a)]_vars

\* C10: every argument of every registered Door, in the shape the Door has
\* now, names a Param.
C10_InputsHaveParams ==
    \A i \in 1..Len(doors) : Range(EntryArguments(doors[i])) \subseteq DOMAIN params


\* The writes the claim C11 expects of one invocation: nothing for no output
\* name, the whole result for one, the i-th element for the i-th of several.
Distributed(return_vals, output) ==
    IF Len(return_vals) = 1
    THEN <<[name |-> return_vals[1], value |-> output]>>
    ELSE [i \in 1..Len(return_vals) |->
              [name |-> return_vals[i], value |-> output.v[i]]]

RECURSIVE DistributedAll(_, _, _)
DistributedAll(l, ds, j) ==
    IF j > Len(l.invoked) THEN <<>>
    ELSE Distributed(EntryReturnVals(Lookup(ds, l.invoked[j])), l.outputs[j])
             \o DistributedAll(l, ds, j + 1)

\* C11: a successful run_step stores, for every Door it invokes in turn, the
\* whole result under a single output name and the i-th element under the
\* i-th of several; a Param that was Unset is replaced by a fresh
\* non-constant Param, any other is written in place, both recording the
\* type of the value; a Param that no output names is left as it was.
C11_OutputsDistributed ==
    [][(last'.op = "run_step" /\ last'.err = "none") =>
          /\ DoorWrites(last') = DistributedAll(last', doors', 1)
          /\ \A n \in DOMAIN params :
                 IF Written(DoorWrites(last'), n)
                 THEN LET val == LastWritten(DoorWrites(last'), n)
                      IN  /\ ValueOf(params', keyword_args', n) = val
                          /\ TypeOf(params', keyword_args', n) = val.t
                          /\ IF IsEmpty(CurrentValue(n))
                             THEN params'[n] = OwnParam(val, FALSE)
                             ELSE /\ params'[n].cell = params[n].cell
                                  /\ params'[n].constant = params[n].constant
                                  /\ params'[n].restrict = params[n].restrict
                 ELSE /\ params'[n] = params[n]
                      /\ ValueOf(params', keyword_args', n) = CurrentValue(n)]_vars

\* C11 happens: one step invoked t (one name, a tuple as result, z Unset
\* before), then s (two names, z now set) and q (no name).
C11_Witness ==
    /\ last.op = "run_step"
    /\ last.err = "none"
    /\ last.invoked = <<"t", "s", "q">>
    /\ DoorWrites(last) =
           <<[name |-> "z", value |-> TupleVal(<<IntVal(1), IntVal(3)>>)],
             [name |-> "z", value |-> IntVal(1)],
             [name |-> "y", value |-> IntVal(3)]>>
    /\ CurrentValue("z") = IntVal(1)


\* run_step and initialize: the operations that run the initialization phase.
RunsInitialization(l) == l.op \in {"run_step", "initialize"}

\* C12: once a run_step or initialize has executed the initialization
\* Doors (has_initialized is never reset here), a later run_step or
\* initialize executes none of them: its initialization phase writes nothing.
C12_InitializationOnce ==
    [][(/\ RunsInitialization(last) /\ last.ninit > 0
        /\ RunsInitialization(last')) => last'.ninit = 0]_vars


\* C13: a write through the setter of a Param whose constant flag is true
\* raises ParameterError, leaves the value and the recorded type as they
\* were, and notifies no listener.
C13_ConstantWriteRejected ==
    [][(plast'.op = "set" /\ pobj[plast'.o].constant) =>
          /\ plast'.err = "ParameterError"
          /\ pobj'[plast'.o].value = pobj[plast'.o].value
          /\ pobj'[plast'.o].type = pobj[plast'.o].type
          /\ plast'.notified = <<>>]_vars

\* C13 happens: the setter of a constant Param that has a listener raised.
C13_Witness ==
    /\ plast.op = "set"
    /\ plast.err = "ParameterError"
    /\ pobj[plast.o].constant
    /\ plist[pobj[plast.o].lst] # <<>>


C14_ValidatorKept ==
    [][last'.op # "add_param" =>
          \A n \in DOMAIN params :
              params[n].restrict # "none" =>
                  /\ n \in DOMAIN params'
                  /\ \/ ValueOf(params', keyword_args', n) = CurrentValue(n)
                     \/ Accepts(params[n].restrict,
                                ValueOf(params', keyword_args', n))]_vars


\* C16: remove_door(name) of a registered name takes that Door, and only
\* that Door, out of the registered Doors and leaves every Param as it was;
\* of a name that is not registered it raises KeyError and changes nothing.
C16_RemoveDoorFrame ==
    [][last'.op = "remove_door" =>
          /\ params' = params
          /\ keyword_args' = keyword_args
          /\ IF last'.arg \in Registered
             THEN /\ last'.err = "none"
                  /\ Keys(doors') = Registered \ {last'.arg}
                  /\ Len(doors') = Len(doors) - 1
                  /\ \A k \in Keys(doors') : Lookup(doors', k) = Lookup(doors, k)
             ELSE /\ last'.err = "KeyError"
                  /\ doors' = doors
                  /\ call_order' = call_order]_vars

\* C16 happens: g was removed while another Door stays registered, and the
\* Param w that g introduced is still in the namespace.
C16_Witness ==
    /\ last.op = "remove_door"
    /\ last.err = "none"
    /\ last.arg = "g"
    /\ "f" \in Registered
    /\ "g" \notin Registered
    /\ "w" \in DOMAIN params


\* The arguments of the Door registered under k, in the shape it has before
\* the operation and in the shape it has after it, all name Params that hold
\* a value.
InputsSet(k) ==
    /\ HasKey(doors, k)
    /\ \A e \in {Lookup(doors, k), Lookup(doors', k)} :
           \A a \in Range(EntryArguments(e)) :
               a \in DOMAIN params /\ ~IsEmpty(CurrentValue(a))

\* C17: with the inputs of the Door set (and nothing for a run_step to
\* initialize or to report missing), call(k) leaves the Params as a run_step
\* whose call order is <<k>> leaves them, and raises what it raises.
C17_CallMatchesRunStep ==
    [][(/\ last'.op = "call"
        /\ InputsSet(last'.arg)
        /\ initialization = <<>>
        /\ Missing(Here) = {}) =>
          LET r == RunStep(Here, <<last'.arg>>, initialization, has_initialized)
          IN  /\ last'.err = r.err
              /\ params' = r.params
              /\ keyword_args' = r.kw]_vars


\* C18: a call that succeeds returns what the Door's callable returned, as
\* it returned it.
C18_CallReturnsRawResult ==
    (last.op = "call" /\ last.err = "none") =>
        /\ Len(last.outputs) = 1
        /\ last.ret = last.outputs[1]


\* The outputs of Door d whose declared return type is a Door.
DoorOutputs(d) ==
    {ReturnVals(d)[i] : i \in {j \in 1..Len(ReturnTypes(d)) :
                                  /\ j <= Len(ReturnVals(d))
                                  /\ ReturnTypes(d)[j] = "Door"}}

\* What add_door with dynamic_door leaves for such an output k that is no
\* registered Door: a DynamicDoor under k that generates from Param k, last
\* in the call order right after the generating Door, and Param k Unset.
Expanded(k) ==
    /\ Keys(doors') = Registered \cup {last'.arg, k}
    /\ Lookup(doors', k).dyn
    /\ Lookup(doors', k).gen = k
    /\ Lookup(doors', k).id = 0
    /\ call_order' = call_order \o <<last'.arg, k>>
    /\ k \in DOMAIN params'
    /\ IsEmpty(ValueOf(params', keyword_args', k))

\* C19 as stated: add_door with dynamic_door expands such an output k;
\* without it only the generating Door is registered, and Param k is there
\* and Unset.
C19_ExpandOrUnset ==
    [][(last'.op = "add_door" /\ last'.err = "none") =>
          \A k \in DoorOutputs(last'.d) \ Registered :
              IF last'.force THEN Expanded(k)
              ELSE /\ Keys(doors') = Registered \cup {last'.arg}
                   /\ call_order' = Append(call_order, last'.arg)
                   /\ k \in DOMAIN params'
                   /\ IsEmpty(ValueOf(params', keyword_args', k))]_vars

\* C19: add_door with dynamic_door expands such an output k; without it
\* only the generating Door is registered, and Param k is Unset if the name
\* is new and left as it was if the namespace had it.
C19_ExpandOrKeep ==
    [][(last'.op = "add_door" /\ last'.err = "none") =>
          \A k \in DoorOutputs(last'.d) \ Registered :
              IF last'.force THEN Expanded(k)
              ELSE /\ Keys(doors') = Registered \cup {last'.arg}
                   /\ call_order' = Append(call_order, last'.arg)
                   /\ k \in DOMAIN params'
                   /\ IF k \in DOMAIN params
                      THEN /\ params'[k] = params[k]
                           /\ ValueOf(params', keyword_args', k) =
                                  CurrentValue(k)
                      ELSE IsEmpty(ValueOf(params', keyword_args', k))]_vars

\* C19 happens: gen was registered without dynamic_door while Param inner
\* held a Door, and no Door is registered under inner.
C19_Witness ==
    /\ last.op = "add_door"
    /\ last.err = "none"
    /\ last.d = GEN
    /\ ~last.force
    /\ "inner" \notin Registered
    /\ CurrentValue("inner").t = "Door"


\* gen is registered, a DynamicDoor generating from Param inner is
\* registered under inner, every name of the call order is registered with
\* gen ahead of inner, and x holds an int.
GenExpanded ==
    /\ HasKey(doors, "gen")
    /\ Lookup(doors, "gen").id = GEN
    /\ HasKey(doors, "inner")
    /\ Lookup(doors, "inner").dyn
    /\ Lookup(doors, "inner").gen = "inner"
    /\ Range(call_order) \subseteq Registered
    /\ \E i, j \in 1..Len(call_order) :
           i < j /\ call_order[i] = "gen" /\ call_order[j] = "inner"
    /\ "x" \in DOMAIN params
    /\ IsInt(CurrentValue("x"))

\* The run_step that would follow the operation just performed.
NextStep ==
    RunStep(Start(doors', params', keyword_args'), call_order',
            initialization', has_initialized')

\* C20: with gen expanded and x set, a run_step succeeds, leaves the
\* DynamicDoor with the shape of inner and y = x + 1 in the namespace; a
\* further run_step changes neither y nor the registered Doors nor the
\* names of the Params.
C20_DynamicStepStable ==
    [][(last'.op = "run_step" /\ GenExpanded) =>
          /\ last'.err = "none"
          /\ Lookup(doors', "inner").id = INNER
          /\ EntryArguments(Lookup(doors', "inner")) = Arguments(INNER)
          /\ EntryReturnVals(Lookup(doors', "inner")) = ReturnVals(INNER)
          /\ "y" \in DOMAIN params'
          /\ ValueOf(params', keyword_args', "y") =
                 IntVal(CurrentValue("x").v + 1)
          /\ ValueOf(params', keyword_args', "x") = CurrentValue("x")
          /\ NextStep.err = "none"
          /\ ValueOf(NextStep.params, NextStep.kw, "y") =
                 ValueOf(params', keyword_args', "y")
          /\ Keys(NextStep.doors) = Keys(doors')
          /\ DOMAIN NextStep.params = DOMAIN params']_vars

\* C20 happens: a successful step ran gen and then the Door it generated,
\* with x = 2, and left y = 3.
C20_Witness ==
    /\ last.op = "run_step"
    /\ last.err = "none"
    /\ last.invoked = <<"gen", "inner">>
    /\ CurrentValue("x") = IntVal(2)
    /\ CurrentValue("y") = IntVal(3)
    /\ Lookup(doors, "inner").id = INNER
    /\ Lookup(doors, "inner").last = INNER


\* Some output position of Door d has no declared return type that is a
\* Door type: the annotation is absent, or names another type.
NotAllDoorTypes(d) ==
    \/ ReturnTypes(d) = <<>>
    \/ \E i \in 1..Len(ReturnTypes(d)) : ReturnTypes(d)[i] # "Door"

\* C21: add_door with dynamic_door raises NeighborhoodError whenever a
\* declared return type of the Door is absent or is not a Door type.
C21_NonDoorTypeRejected ==
    (last.op = "add_door" /\ last.force /\ NotAllDoorTypes(last.d))
        => last.err = "NeighborhoodError"


\* C22: an update whose generator returns something that is not a Door (nor
\* a DynamicDoor) raises TypeError, whatever the DynamicDoor generated
\* before, on update() and on a call.
C22_NonDoorGenerationRaises ==
    (dlast.op \in {"update", "__call__"} /\ ~IsBaseDoor(dlast.generated))
        => dlast.err = "TypeError"

\* C22 happens: a DynamicDoor that had generated a Door is updated with a
\* generator returning an int.
C22_Witness ==
    /\ dlast.op = "update"
    /\ dlast.generated = IntVal(1)
    /\ dlast.err = "TypeError"
    /\ dgen[dlast.o] # <<>>
    /\ dobj[dlast.o].shape # 0

\* C23: a DynamicDoor shows the shape and callable of the Door its most
\* recent successful update generated, _cur_door is that Door and
\* _last_door the Door generated by the successful update before it (None
\* when fewer than two updates succeeded).
C23_MirrorsLastGeneration ==
    \A o \in DOMAIN dobj :
        LET g == dgen[o]
            n == Len(g)
        IN  IF n = 0
            THEN /\ dobj[o].shape = 0
                 /\ dobj[o].bf = 0
                 /\ dobj[o].cur = NoneVal
                 /\ dobj[o].last = NoneVal
            ELSE /\ dobj[o].shape = g[n].shape
                 /\ dobj[o].bf = g[n].bf
                 /\ dobj[o].cur = g[n].door
                 /\ dobj[o].last = IF n >= 2 THEN g[n - 1].door ELSE NoneVal

\* C24: call_without_update raises AttributeError while no update has
\* succeeded, and afterwards calls the callable generated last without
\* invoking the generator; a call invokes the generator and then the
\* callable of the Door just generated.
C24_CallPaths ==
    /\ dlast.op = "call_without_update" =>
           IF dgen[dlast.o] = <<>>
           THEN dlast.err = "AttributeError"
           ELSE /\ dlast.err # "AttributeError"
                /\ dlast.generator = 0
                /\ dlast.called = dgen[dlast.o][Len(dgen[dlast.o])].bf
    /\ dlast.op = "__call__" =>
           /\ dlast.generator # 0
           /\ IsBaseDoor(dlast.generated) =>
                  dlast.called = dgen[dlast.o][Len(dgen[dlast.o])].bf


\* The writes the outputs of Door d make: the result under its single
\* output name, or the items of the result under its output names.
OutputWrites(d, out) ==
    IF Len(ReturnVals(d)) = 1
    THEN <<[name |-> ReturnVals(d)[1], value |-> out]>>
    ELSE [j \in 1..Len(ReturnVals(d)) |->
             [name |-> ReturnVals(d)[j], value |-> out.v[j]]]

\* The writes of the first k callables of fxns, given what they returned.
RECURSIVE WritesUpTo(_, _, _)
WritesUpTo(fxns, outs, k) ==
    IF k = 0 THEN <<>>
    ELSE WritesUpTo(fxns, outs, k - 1) \o OutputWrites(fxns[k], outs[k])

\* What the namespace holds under a once the writes w are made.
ValueAfter(w, a) ==
    LET at == {i \in 1..Len(w) : w[i].name = a}
    IN  IF at = {} THEN CurrentValue(a)
        ELSE w[CHOOSE i \in at : \A j \in at : j <= i].value

\* C25: finalize runs the callables of the finalization list in list order,
\* each on the values the namespace holds when its turn comes; an output
\* under a new name becomes a constant Param with the output's value, an
\* output under a known name replaces the value of a Param that is not
\* constant, and a constant one stops finalize with ParameterError.
C25_FinalizeOutputs ==
    [][last'.op = "finalize" =>
          LET fxns == finalization
              inv == last'.invoked
              outs == last'.outputs
              w == last'.writes
          IN  /\ Len(inv) <= Len(fxns)
              /\ \A k \in 1..Len(inv) : inv[k] = DoorName(fxns[k])
              /\ last'.err = "none" => Len(outs) = Len(fxns)
              /\ \A k \in 1..Len(outs) :
                     outs[k] =
                         BaseFunction(
                             fxns[k], 0,
                             [a \in Range(Arguments(fxns[k])) |->
                                 ValueAfter(WritesUpTo(fxns, outs, k - 1), a)]
                         ).out
              /\ last'.err = "none" => w = WritesUpTo(fxns, outs, Len(fxns))
              /\ \A i \in 1..Len(w) :
                     IF w[i].name \notin DOMAIN params
                     THEN /\ params'[w[i].name].constant
                          /\ ValueOf(params', keyword_args', w[i].name) =
                                 w[i].value
                          /\ \A j \in 1..Len(w) : w[j].name = w[i].name => j = i
                     ELSE /\ ~params[w[i].name].constant
                          /\ ~params'[w[i].name].constant
                          /\ ValueOf(params', keyword_args', w[i].name) =
                                 ValueAfter(w, w[i].name)
              /\ last'.err = "ParameterError" =>
                     /\ last'.failed \in DOMAIN params'
                     /\ params'[last'.failed].constant
              /\ \A n \in DOMAIN params' :
                     (\A i \in 1..Len(w) : w[i].name # n) =>
                         /\ n \in DOMAIN params
                         /\ ValueOf(params', keyword_args', n) = CurrentValue(n)
                         /\ params'[n].constant = params[n].constant]_vars

\* C25 happens: a finalize ran two callables to the end, added a constant
\* Param for a new output name and replaced the value of a known one.
C25_Witness ==
    /\ last.op = "finalize"
    /\ last.err = "none"
    /\ Len(last.invoked) = 2
    /\ \E i, j \in 1..Len(last.writes) :
           /\ params[last.writes[i].name].constant
           /\ ~params[last.writes[j].name].constant
           /\ CurrentValue(last.writes[j].name) = last.writes[j].value


\* The names of the callable fn: its arguments and its output names.
NamesOf(fn) == Range(Arguments(fn)) \cup Range(ReturnVals(fn))

\* A rename-map a Door of fn must refuse: a mapped name that is no
\* identifier or is a name of fn, or a name mapped from that fn has not.
InvalidMap(fn, argmap) ==
    \E i \in 1..Len(argmap) :
        \/ ~IsMapName(argmap[i].key)
        \/ argmap[i].key \in NamesOf(fn)
        \/ argmap[i].value \notin NamesOf(fn)

\* C26: building a Door with an argument mapping, or setting a new one,
\* raises DoorError exactly when a mapped name is no identifier, a mapped
\* name is already an argument or an output name, or a name mapped from is
\* neither an argument nor an output name.
C26_MapValidation ==
    dlast.op \in {"Door", "argument_mapping"} =>
        /\ dlast.err \in {"none", "DoorError"}
        /\ dlast.err = "DoorError" <=> InvalidMap(dlast.fn, dlast.argmap)

\* The name a valid argmap shows for name n of the callable.
External(argmap, n) ==
    IF \E i \in 1..Len(argmap) : argmap[i].value = n
    THEN argmap[CHOOSE i \in 1..Len(argmap) : argmap[i].value = n].key
    ELSE n

\* dict equality: the same keys with equal values, in any order.
SameDict(d, e) == Range(d) = Range(e) /\ Len(d) = Len(e)

\* C27: a Door built with a valid argument mapping lists arguments,
\* keyword_args and return_vals under the mapped names in the order of the
\* callable, required_arguments are the mapped names of the arguments
\* without default, and original_arguments, original_kw_arguments and
\* original_return_vals equal those of a Door built without mapping.
C27_MappedShape ==
    (dlast.op = "Door" /\ dlast.err = "none"
                       /\ ~InvalidMap(dlast.fn, dlast.argmap)) =>
        LET self == dlast.door
            plain == InspectedDoor(dlast.fn, <<>>)
            ext(n) == External(dlast.argmap, n)
        IN  /\ DictOrder(self.arguments) =
                   [i \in 1..Len(plain.arguments) |->
                       ext(plain.arguments[i].name)]
            /\ \A i \in 1..Len(self.arguments) :
                   self.arguments[i].of = plain.arguments[i].name
            /\ DictOrder(self.keyword_args) =
                   [i \in 1..Len(plain.keyword_args) |->
                       ext(plain.keyword_args[i].name)]
            /\ \A i \in 1..Len(self.keyword_args) :
                   self.keyword_args[i].of = plain.keyword_args[i].name
            /\ self.return_vals =
                   [i \in 1..Len(plain.return_vals) |->
                       ext(plain.return_vals[i])]
            /\ MappedRequiredArguments(self) =
                   [i \in 1..Len(MappedRequiredArguments(plain)) |->
                       ext(MappedRequiredArguments(plain)[i])]
            /\ SameDict(OriginalArguments(self), plain.arguments)
            /\ SameDict(OriginalKwArguments(self), plain.keyword_args)
            /\ OriginalReturnVals(self) = plain.return_vals

\* The callable of Door self invoked without renaming: each value of kwargs
\* is given under the argument of the callable that its visible name holds.
UnrenamedCall(self, kwargs) ==
    LET given == {i \in 1..Len(kwargs) :
                     kwargs[i].name \in DictKeys(self.arguments)}
        in == [a \in {DictGet(self.arguments, kwargs[i].name).of :
                         i \in given} |->
                  (CHOOSE e \in {kwargs[i] : i \in given} :
                       DictGet(self.arguments, e.name).of = a).value]
        res == BaseFunction(self.fn, 0, in)
    IN  [err |-> res.err, out |-> res.out]

Candidates(ret_string) ==
    [i \in 1..Len(Split(ret_string)) |-> Strip(Split(ret_string)[i])]

\* A bare identifier: word characters, the first of them no digit.
IsIdentifier(val) == WordMatch(val) /\ val[1] \notin DigitChars

\* The name lists of the statements all of whose candidates are identifiers.
ContributedLists(lines) ==
    {Candidates(lines[i]) :
        i \in {k \in 1..Len(lines) :
                  \A c \in 1..Len(Candidates(lines[k])) :
                      IsIdentifier(Candidates(lines[k])[c])}}

\* C29: building a BaseDoor, a return statement with a candidate that is no
\* bare identifier contributes no names; DoorError is raised exactly when
\* two contributing statements list different names, and otherwise
\* return_vals is the one list found, or empty when nothing contributes.
C29_ReturnStatements ==
    dlast.op = "BaseDoor" =>
        LET lists == ContributedLists(source)
        IN  /\ dlast.err \in {"none", "DoorError"}
            /\ dlast.err = "DoorError" <=> Cardinality(lists) > 1
            /\ dlast.err = "none" =>
                   dlast.return_vals =
                       IF lists = {} THEN <<>> ELSE CHOOSE l \in lists : TRUE


\* The keyword arguments of kwargs that name an argument of fn, as the
\* mapping a call of fn receives.
DeclaredInputs(fn, kwargs) ==
    [a \in {kwargs[i].name : i \in 1..Len(kwargs)}
               \cap Range(Arguments(fn)) |->
        (CHOOSE e \in Range(kwargs) : e.name = a).value]

\* C30: a call of a BaseDoor drops the keyword arguments that name no
\* argument; with typecheck on, a value that is no instance of the type its
\* argument declares raises ParameterError before the callable is called and
\* a value for an argument without declared type is accepted; otherwise the
\* call ends as the callable does on the remaining arguments.
C30_BaseDoorCall ==
    (dlast.op = "__call__" /\ dobj # <<>>) =>
        LET self == dobj[1]
            in == DeclaredInputs(self.fn, dlast.kwargs)
            mistyped == {a \in DOMAIN in :
                            /\ Annotation(self.fn, a) # "Empty"
                            /\ in[a].t # Annotation(self.fn, a)}
            res == BaseFunction(self.fn, 0, in)
        IN  IF self.typecheck /\ mistyped # {}
            THEN dlast.err = "ParameterError" /\ ~dlast.called
            ELSE /\ dlast.called
                 /\ dlast.err = res.err
                 /\ dlast.ret = res.out


\* C31: building a BaseDoor from a callable that declares a positional-only
\* argument raises DoorError, and no Door is created.
C31_PositionalOnlyRejected ==
    (dlast.op = "BaseDoor" /\ PositionalOnly(dlast.fn) # <<>>) =>
        dlast.err = "DoorError" /\ dobj = <<>>


\* The output names of the callables of the initialization list.
InitializationOutputs ==
    UNION {Range(ReturnVals(initialization[i])) :
              i \in 1..Len(initialization)}

\* What the initialization phase of the step just taken wrote.
InitializationWrites == SubSeq(last'.writes, 1, last'.ninit)

\* C32: when every required parameter that is Empty before a run_step is an
\* output of an initialization callable, the step does not fail for missing
\* parameters, and the first Door of the call order is called with the
\* values the initialization wrote.
C32_InitializationBeforeValidation ==
    [][(/\ last'.op = "run_step"
        /\ Missing(Here) # {}
        /\ Missing(Here) \subseteq InitializationOutputs) =>
          /\ ~(/\ last'.err = "ParameterError"
               /\ last'.failed = ""
               /\ last'.invoked = <<>>)
          /\ (last'.invoked # <<>> /\ ~Lookup(doors, last'.invoked[1]).dyn) =>
                 LET e == Lookup(doors, last'.invoked[1])
                     res == BaseFunction(e.id, e.cap,
                                [a \in Range(EntryArguments(e)) |->
                                    IF Written(InitializationWrites, a)
                                    THEN LastWritten(InitializationWrites, a)
                                    ELSE CurrentValue(a)])
                 IN  IF last'.returned >= 1
                     THEN res.err = "none" /\ last'.outputs[1] = res.out
                     ELSE res.err = last'.err]_vars

\* C32 happens: the first operation is a run_step on a Neighborhood whose
\* Door f requires x, Empty since construction; init gave x = 1 and f
\* returned 1 + 1.
C32_Witness ==
    /\ nops = 1
    /\ last.op = "run_step"
    /\ last.err = "none"
    /\ last.ninit = 1
    /\ last.writes[1] = [name |-> "x", value |-> IntVal(1)]
    /\ last.invoked # <<>>
    /\ last.invoked[1] = "f"
    /\ last.outputs[1] = IntVal(2)


\* The default a regenerated DynamicDoor of the Neighborhood declares for
\* argument n; Empty when none of them declares one.
DiscoveredDefault(ds, n) ==
    LET with == {i \in 1..Len(ds) :
                    /\ ds[i].dyn
                    /\ n \in Range(EntryArguments(ds[i]))
                    /\ ~IsEmpty(DeclaredDefault(ds[i].id, n))}
    IN  IF with = {} THEN Empty
        ELSE DeclaredDefault(ds[CHOOSE i \in with : TRUE].id, n)

\* C33: a name that run_step adds to the namespace for a regenerated
\* DynamicDoor holds the Door's default for it, or Empty when it has none,
\* and while nothing is written to it an Empty one is among
\* empty_parameters.
C33_DiscoveredParams ==
    [][last'.op = "run_step" =>
          \A n \in DOMAIN params' \ DOMAIN params :
              ~Written(last'.writes, n) =>
                  /\ ValueOf(params', keyword_args', n) =
                         DiscoveredDefault(doors', n)
                  /\ IsEmpty(DiscoveredDefault(doors', n)) =>
                         n \in EmptyParameters(params', keyword_args')]_vars


\* The state of the step just taken when it is about to handle the k-th
\* name of the call order.
BeforeDoor(k) == CallAllDoors(AtValidation, SubSeq(call_order, 1, k - 1), 1)

\* C34: run_step calls no Door while the Param of one of its arguments
\* without default holds Empty: for every Door the step called, each such
\* argument held a value when the Door was called.
C34_NoCallWithEmptyInput ==
    [][last'.op = "run_step" =>
          \A k \in 1..Len(last'.invoked) :
              LET st == BeforeDoor(k)
                  e == Lookup(st.doors, last'.invoked[k])
              IN  ~e.dyn =>
                      \A a \in Range(EntryArguments(e)) :
                          IsEmpty(DeclaredDefault(e.id, a)) =>
                              ~IsEmpty(ValueOf(st.params, st.kw, a))]_vars


\* C35: calling Doors (run_step, call) never changes the default recorded in
\* a registered Door: every Door's keyword_args hold after the operation what
\* they held before it.
C35_DefaultsUnchangedByCalls ==
    [][last'.op \in {"run_step", "call"} => keyword_args' = keyword_args]_vars


\* The listeners a write to Param object o notifies.
ListenersOf(objs, lists, o) == lists[objs[o].lst]

\* C36: listeners are kept per Param: add_listener on one Param leaves the
\* listeners of every other Param as they were, and a Param created without
\* a listeners list has none, so a listener is notified only of writes to
\* the Param it was added to.
C36_ListenersPerParam ==
    [][/\ plast'.op = "add_listener" =>
              \A o \in DOMAIN pobj \ {plast'.o} :
                  ListenersOf(pobj', plist', o) = ListenersOf(pobj, plist, o)
       /\ (plast'.op = "new" /\ pobj'[plast'.o].lst # plast'.o) =>
              ListenersOf(pobj', plist', plast'.o) = <<>>]_vars


\* C37: every registered Door, a DynamicDoor after its regeneration
\* included, is stored under a key equal to its current name.
C37_KeyIsName ==
    \A i \in 1..Len(doors) : doors[i].key = EntryName(doors[i])


\* C38: when the call of a Door with a valid argument mapping raises, the
\* Door lists arguments and keyword_args under the mapped names afterwards,
\* as it did when it was built.
C38_FailedCallKeepsMappedNames ==
    [][(/\ dlast'.op = "__call__"
        /\ dlast'.err # "none"
        /\ dobj # <<>>
        /\ ~InvalidMap(dobj[1].fn, dobj[1].argmap)) =>
          LET self == dobj'[1]
              plain == InspectedDoor(self.fn, <<>>)
          IN  /\ DictOrder(self.arguments) =
                     [i \in 1..Len(plain.arguments) |->
                         External(self.argmap, plain.arguments[i].name)]
              /\ DictOrder(self.keyword_args) =
                     [i \in 1..Len(plain.keyword_args) |->
                         External(self.argmap, plain.keyword_args[i].name)]]_vars


\* C39: an add_door that raises leaves the registered Doors, the call order
\* and the Params as they were before it.
C39_FailedAddDoorChangesNothing ==
    [][(last'.op = "add_door" /\ last'.err # "none") =>
          /\ doors' = doors
          /\ call_order' = call_order
          /\ params' = params]_vars


\* The finalize that would follow the step just taken.
NextFinalize == Finalize(Start(doors', params', keyword_args'), finalization')

\* C40: finalize can be repeated: after a finalize that returned, a second
\* finalize with the same finalization list returns too.
C40_FinalizeRepeatable ==
    [][(last'.op = "finalize" /\ last'.err = "none") =>
          NextFinalize.err = "none"]_vars

====
